---- MODULE Spec2Model ----
(***************************************************************************)
(* Telemetry ingestion and anomaly analysis (src/src/app.ts,               *)
(* src/src/services/agentAI.ts) and the keyword classifier of the          *)
(* conversational agent (src/unnamed/part_000).                            *)
(*                                                                         *)
(* A task is one logical request of the single-threaded event loop: an     *)
(* ingest call (POST /api/telemetry) or a direct call of the exported      *)
(* analyzeHighCurrent.  Tasks interleave only at the awaits of the code;   *)
(* every action below runs from the settlement of one awaited promise to   *)
(* the next await (the for-loop's iterations are taken one at a time,      *)
(* which only adds interleavings).  Spec follows one ingest call over a    *)
(* batch, SpecAnalyze one direct call of analyzeHighCurrent over a wider   *)
(* range of readings and thresholds, SpecClassify the keyword classifier.  *)
(* SpecText follows a direct call on the text of the reply, SpecConcurrent *)
(* two ingest calls at once; the agents and their tools have the           *)
(* specifications named in their sections.                                 *)
(*                                                                         *)
(* Readings are integers (the code's floats; the exceedance ratio is       *)
(* compared exactly, without rounding).  deviceId, voltage, gas and the    *)
(* record's own timestamp are copied through by the code and decide        *)
(* nothing; they are not carried.  The store keeps every field written to  *)
(* it.                                                                     *)
(***************************************************************************)
EXTENDS Integers, Sequences, FiniteSets, TLC

----------------------------------------------------------------------------
(* Bounds of the model *)

MaxBatch == 2
MaxTicks == 2

(* Program constants *)

CURRENT_THRESHOLD == 50
RateLimitStatus == 429

MinuteMs == 60 * 1000
BlockMs == 5 * 60 * 1000
TickMs == 3 * MinuteMs

Tasks == {1, 2}

(* A reading or a column value v is <<v>>; a missing reading (undefined, null, *)
(* NaN) and a column never written (NULL) are <<>>.                           *)
Num(v) == <<v>>
Some(v) == <<v>>
Missing == <<>>
Null == <<>>
(* a field the oracle's JSON does not carry (or carries falsy) *)
Absent == "absent"
(* no AnalysisResult yet *)
NoResult ==
    [severity |-> "", possibleCause |-> "", recommendation |-> "",
     isCurrentExceeded |-> FALSE, analysisTimestamp |-> 0]

----------------------------------------------------------------------------
(* Inputs *)

IngestCurrents == {Missing, Num(40), Num(120)}
IngestTemperatures == {Num(90)}
IngestRecords == [current : IngestCurrents, temperature : IngestTemperatures]

RECURSIVE SeqsUpTo(_, _)
SeqsUpTo(S, n) ==
    IF n = 0 THEN {<<>>}
    ELSE LET shorter == SeqsUpTo(S, n - 1)
         IN shorter \cup {Append(s, x) : s \in {q \in shorter : Len(q) = n - 1}, x \in S}

Batches == SeqsUpTo(IngestRecords, MaxBatch)

DirectCurrents == {Missing} \cup {Num(v) : v \in {1, 2, 3, 4, 40, 50, 51, 60, 75, 76, 100, 120}}
DirectTemperatures == {Missing, Num(25), Num(90)}
Thresholds == {2, 50}
DirectData ==
    [current : DirectCurrents, temperature : DirectTemperatures, threshold : Thresholds]

(* What the oracle's text is once trimmed and stripped of fences:          *)
(* a JSON object, JSON null, another JSON value, or text that is not JSON. *)
ObjectReply(s, c, r) ==
    [form |-> "object", severity |-> s, possibleCause |-> c, recommendation |-> r]
OracleReplies ==
    { ObjectReply("CRITICAL", "overload", "reduce load"),
      ObjectReply("WARNING", "overload", "reduce load"),
      ObjectReply("HIGH", "overload", "reduce load"),
      ObjectReply(Absent, Absent, "reduce load"),
      [form |-> "null", severity |-> Absent, possibleCause |-> Absent, recommendation |-> Absent],
      [form |-> "scalar", severity |-> Absent, possibleCause |-> Absent, recommendation |-> Absent],
      [form |-> "garbage", severity |-> Absent, possibleCause |-> Absent, recommendation |-> Absent] }

NoReply == [form |-> "none", severity |-> Absent, possibleCause |-> Absent, recommendation |-> Absent]

(* generateContent resolves with text or rejects with an HTTP status *)
OracleOutcomes ==
    {[ok |-> TRUE, status |-> 200, reply |-> r] : r \in OracleReplies}
    \cup {[ok |-> FALSE, status |-> s, reply |-> NoReply] : s \in {RateLimitStatus, 500}}

----------------------------------------------------------------------------
VARIABLES
    now,             \* Date.now()
    store,           \* the DeviceTelemetries table: a sequence of rows, id = index
    oracleCalls,     \* number of generateContent calls sent
    rateLimitedAt,   \* times at which a 429 was received (history)
    kind,            \* task -> "ingest" | "direct" | "off" (no such request)
    pc,              \* task -> the await it is suspended at
    batch,           \* ingest: req.body
    rows,            \* ingest: ids of insertedRows
    idx,             \* ingest: position of the for-loop
    data,            \* analyze: its TelemetryData argument
    isApiBlocked,    \* analyze: the local of line 36
    blockUntil,      \* analyze: the local of line 37
    pending,         \* analyze: finalResult while create is awaited
    ai,              \* the AnalysisResult analyze returned
    lastError,       \* analyze: the error its catch block received
    response,        \* ingest: HTTP status sent, and the error the handler caught
    trace,           \* task -> sequence of the steps it has taken (history)
    enteredInWindow, \* analyze: entered within BlockMs of an earlier 429 (history)
    question,        \* classifier: the input text
    classification,  \* classifier: the value classifyQuery returned
    rpc,             \* agent: the await getConversationalResponse is suspended at
    calls,           \* agent: the oracle, tool and store calls made, in order (history)
    rule,            \* classifier: the return statement that decided (history)
    replies,         \* the oracle's replies received, in order (history)
    rejection,       \* agent: the error a rejected promise carries
    answer,          \* agent: the value getConversationalResponse returned
    toolkit,         \* agent: the registry getSQLToolkit builds
    inflight,        \* agent: number of calls issued and not yet settled
    failures,        \* agent: the errors of the calls that failed (history)
    cont             \* agent: what is done with the result of the awaited call

pipelineVars ==
    <<now, store, oracleCalls, rateLimitedAt, kind, pc, batch, rows, idx, data,
      isApiBlocked, blockUntil, pending, ai, lastError, response, trace, enteredInWindow>>
agentVars ==
    <<rpc, calls, rule, replies, rejection, answer, toolkit, inflight, failures, cont>>
classifierVars == <<question, classification, agentVars>>
vars == <<pipelineVars, classifierVars>>

----------------------------------------------------------------------------
(* analyzeHighCurrent: its pure parts *)

(* a > b of JavaScript on a reading that may be missing *)
Greater(a, b) == a # Missing /\ a[1] > b

(* (num / den) > 0.5 for den > 0 *)
RatioOverHalf(num, den) == 2 * num > den

Event(e, k) == <<e, k>>

BlockedResult(d, t) ==
    [severity |-> "UNKNOWN",
     possibleCause |-> "API blocked due to rate limits",
     recommendation |-> "Wait until API is available",
     isCurrentExceeded |-> Greater(d.current, d.threshold),
     analysisTimestamp |-> t]

OrElse(v, default) == IF v = Absent THEN default ELSE v

(* JSON.parse(cleanedResponse) throws a SyntaxError on text that is not JSON *)
JsonParseThrows(reply) == reply.form = "garbage"

(* reading .severity of null throws a TypeError; of a non-object gives undefined *)
FieldReadThrows(reply) == reply.form = "null"

(* FinalResult passing the parsed fields on as they are, without defaults *)
FinalResultNoDefaults(reply, d, t) ==
    [severity |-> reply.severity,
     possibleCause |-> reply.possibleCause,
     recommendation |-> reply.recommendation,
     isCurrentExceeded |-> Greater(d.current, d.threshold),
     analysisTimestamp |-> t]

FinalResult(reply, d, t) ==
    [severity |-> OrElse(reply.severity, "UNKNOWN"),
     possibleCause |-> OrElse(reply.possibleCause, "Analysis incomplete"),
     recommendation |-> OrElse(reply.recommendation, "Manual inspection required"),
     isCurrentExceeded |-> Greater(d.current, d.threshold),
     analysisTimestamp |-> t]

(* FallbackSeverity following the tiers the prompt gives the oracle, in which *)
(* a temperature above 80 is CRITICAL too                                     *)
FallbackSeverityByTemperature(d) ==
    IF Greater(d.current, d.threshold)
    THEN IF RatioOverHalf(d.current[1] - d.threshold, d.threshold) \/ Greater(d.temperature, 80)
         THEN "CRITICAL" ELSE "WARNING"
    ELSE "NORMAL"

FallbackSeverity(d) ==
    IF Greater(d.current, d.threshold)
    THEN IF RatioOverHalf(d.current[1] - d.threshold, d.threshold) THEN "CRITICAL" ELSE "WARNING"
    ELSE "NORMAL"

FallbackResult(d, t) ==
    [severity |-> FallbackSeverity(d),
     possibleCause |-> "AI analysis failed - using threshold-based fallback",
     recommendation |-> IF Greater(d.current, d.threshold)
                        THEN "Current exceeds threshold. Check equipment immediately."
                        ELSE "All parameters appear normal.",
     isCurrentExceeded |-> Greater(d.current, d.threshold),
     analysisTimestamp |-> t]

----------------------------------------------------------------------------
(* The store *)

RawRow(rec) ==
    [current |-> rec.current, temperature |-> rec.temperature,
     severity |-> Null, possibleCause |-> Null, recommendation |-> Null,
     isCurrentExceeded |-> Null, analysisTimestamp |-> Null]

RECURSIVE MapRaw(_)
MapRaw(b) == IF b = <<>> THEN <<>> ELSE <<RawRow(Head(b))>> \o MapRaw(Tail(b))

(* DeviceTelemetry.bulkCreate(dataBatch, {returning: true}) *)
BulkCreate(s, b) == s \o MapRaw(b)

(* DeviceTelemetry.create(recordToSave) *)
RecordToSave(d, r) ==
    [current |-> d.current, temperature |-> d.temperature,
     severity |-> Some(r.severity), possibleCause |-> Some(r.possibleCause),
     recommendation |-> Some(r.recommendation),
     isCurrentExceeded |-> Some(r.isCurrentExceeded),
     analysisTimestamp |-> Some(r.analysisTimestamp)]

Create(s, row) == Append(s, row)

(* data.update({severity, possibleCause, recommendation, analysisTimestamp}) *)
Update(s, id, r) ==
    [s EXCEPT ![id] = [@ EXCEPT !.severity = Some(r.severity),
                                !.possibleCause = Some(r.possibleCause),
                                !.recommendation = Some(r.recommendation),
                                !.analysisTimestamp = Some(r.analysisTimestamp)]]

----------------------------------------------------------------------------
(* Errors: what a catch block can see of the thrown value *)

(* name: the error's class; status: error.response.status (0: it has none); *)
(* at: the call that threw                                                  *)
HttpError(status) == [name |-> "Error", status |-> status, at |-> "generateContent"]
SyntaxError == [name |-> "SyntaxError", status |-> 0, at |-> "JSON.parse"]
TypeError == [name |-> "TypeError", status |-> 0, at |-> "parsedResult.severity"]
StoreError(op) == [name |-> "StoreError", status |-> 0, at |-> op]
NoError == [name |-> "none", status |-> 0, at |-> "none"]

----------------------------------------------------------------------------
NoResponse == [status |-> 0, error |-> NoError]

InitPipeline(kinds) ==
    /\ kind = kinds
    /\ now = MinuteMs
    /\ store = <<>>
    /\ oracleCalls = 0
    /\ rateLimitedAt = {}
    /\ pc = [t \in Tasks |-> "idle"]
    /\ batch = [t \in Tasks |-> <<>>]
    /\ rows = [t \in Tasks |-> <<>>]
    /\ idx = [t \in Tasks |-> 0]
    /\ data = [t \in Tasks |-> [current |-> Missing, temperature |-> Missing, threshold |-> 0]]
    /\ isApiBlocked = [t \in Tasks |-> FALSE]
    /\ blockUntil = [t \in Tasks |-> 0]
    /\ pending = [t \in Tasks |-> NoResult]
    /\ ai = [t \in Tasks |-> NoResult]
    /\ lastError = [t \in Tasks |-> NoError]
    /\ response = [t \in Tasks |-> NoResponse]
    /\ trace = [t \in Tasks |-> <<>>]
    /\ enteredInWindow = [t \in Tasks |-> FALSE]

(* the two registries of the repository: part_008 and services/sql-toolkit.ts *)
ToolkitAdvanced == "advanced"
ToolkitBasic == "basic"
Toolkits == {ToolkitAdvanced, ToolkitBasic}

NoCont == [ok |-> <<>>, empty |-> <<>>, err |-> <<>>, wrap |-> <<>>]

InitAgent(kits) ==
    /\ question = <<>>
    /\ classification = [type |-> "none", tool |-> "none", action |-> <<>>]
    /\ rpc = "idle"
    /\ calls = <<>>
    /\ rule = "none"
    /\ replies = <<>>
    /\ rejection = <<>>
    /\ answer = <<>>
    /\ toolkit \in kits
    /\ inflight = 0
    /\ failures = <<>>
    /\ cont = NoCont

InitClassifier == InitAgent({ToolkitAdvanced})

(* one ingest request *)
Init == InitPipeline(<<"ingest", "off">>) /\ InitClassifier

(* one direct call of analyzeHighCurrent *)
InitAnalyze == InitPipeline(<<"direct", "off">>) /\ InitClassifier

----------------------------------------------------------------------------
(* analyzeHighCurrent *)

(* return <result>: the awaiting caller resumes with it *)
AnalyzeReturn(t, result) ==
    /\ ai' = [ai EXCEPT ![t] = result]
    /\ pc' = [pc EXCEPT ![t] = IF kind[t] = "ingest" THEN "update" ELSE "returned"]

(* an error leaving analyzeHighCurrent: the awaiting caller sees a rejection *)
AnalyzeThrow(t, err) ==
    /\ ai' = ai
    /\ pc' = [pc EXCEPT ![t] = "threw"]

(* AnalyzeCatch handling the oracle's HTTP failures only; any other error *)
(* (a reply that does not parse, a failed save) leaves the function       *)
AnalyzeCatchRethrows(t, err) ==
    /\ lastError' = [lastError EXCEPT ![t] = err]
    /\ IF err.name = "Error" /\ err.status = RateLimitStatus
       THEN /\ isApiBlocked' = [isApiBlocked EXCEPT ![t] = TRUE]
            /\ blockUntil' = [blockUntil EXCEPT ![t] = now + BlockMs]
            /\ rateLimitedAt' = rateLimitedAt \cup {now}
       ELSE UNCHANGED <<isApiBlocked, blockUntil, rateLimitedAt>>
    /\ IF err.name = "Error"
       THEN AnalyzeReturn(t, FallbackResult(data[t], now))
       ELSE AnalyzeThrow(t, err)

(* AnalyzeCatch opening the breaker on every error, whatever its status *)
AnalyzeCatchBlocksAlways(t, err) ==
    /\ lastError' = [lastError EXCEPT ![t] = err]
    /\ isApiBlocked' = [isApiBlocked EXCEPT ![t] = TRUE]
    /\ blockUntil' = [blockUntil EXCEPT ![t] = now + BlockMs]
    /\ rateLimitedAt' = rateLimitedAt
    /\ AnalyzeReturn(t, FallbackResult(data[t], now))

(* the catch block, lines 132-162 *)
AnalyzeCatch(t, err) ==
    /\ lastError' = [lastError EXCEPT ![t] = err]
    /\ IF err.name = "Error" /\ err.status = RateLimitStatus
       THEN /\ isApiBlocked' = [isApiBlocked EXCEPT ![t] = TRUE]
            /\ blockUntil' = [blockUntil EXCEPT ![t] = now + BlockMs]
            /\ rateLimitedAt' = rateLimitedAt \cup {now}
       ELSE UNCHANGED <<isApiBlocked, blockUntil, rateLimitedAt>>
    /\ AnalyzeReturn(t, FallbackResult(data[t], now))

(* AnalyzeEnter with a breaker that any earlier 429 has opened for good *)
AnalyzeEnterLatched(t, d, tr, k) ==
    LET blocked == rateLimitedAt # {}
    IN /\ data' = [data EXCEPT ![t] = d]
       /\ isApiBlocked' = [isApiBlocked EXCEPT ![t] = blocked]
       /\ blockUntil' = [blockUntil EXCEPT ![t] = 0]
       /\ lastError' = [lastError EXCEPT ![t] = NoError]
       /\ enteredInWindow' =
              [enteredInWindow EXCEPT ![t] = \E at \in rateLimitedAt : now < at + BlockMs]
       /\ IF blocked
          THEN /\ AnalyzeReturn(t, BlockedResult(d, now))
               /\ trace' = [trace EXCEPT ![t] = tr]
               /\ UNCHANGED oracleCalls
          ELSE /\ oracleCalls' = oracleCalls + 1
               /\ pc' = [pc EXCEPT ![t] = "generateContent"]
               /\ trace' = [trace EXCEPT ![t] = Append(tr, Event("oracle", k))]
               /\ UNCHANGED ai

(* lines 36-90: from the call to the await of generateContent; tr is the   *)
(* caller's trace up to the call, k the record the call is for             *)
AnalyzeEnter(t, d, tr, k) ==
    LET blocked == FALSE
        until == 0
    IN /\ data' = [data EXCEPT ![t] = d]
       /\ isApiBlocked' = [isApiBlocked EXCEPT ![t] = blocked]
       /\ blockUntil' = [blockUntil EXCEPT ![t] = until]
       /\ lastError' = [lastError EXCEPT ![t] = NoError]
       /\ enteredInWindow' =
              [enteredInWindow EXCEPT ![t] = \E at \in rateLimitedAt : now < at + BlockMs]
       /\ IF blocked /\ now < until
          THEN /\ AnalyzeReturn(t, BlockedResult(d, now))
               /\ trace' = [trace EXCEPT ![t] = tr]
               /\ UNCHANGED oracleCalls
          ELSE /\ oracleCalls' = oracleCalls + 1
               /\ pc' = [pc EXCEPT ![t] = "generateContent"]
               /\ trace' = [trace EXCEPT ![t] = Append(tr, Event("oracle", k))]
               /\ UNCHANGED ai

(* a direct call of the exported function *)
StartAnalyze(t, d) ==
    /\ kind[t] = "direct"
    /\ pc[t] = "idle"
    /\ AnalyzeEnter(t, d, Append(trace[t], Event("analyze", 0)), 0)
    /\ UNCHANGED <<now, store, rateLimitedAt, kind, batch, rows, idx, pending, response>>
    /\ UNCHANGED classifierVars

(* lines 90-110: generateContent settles; the reply is cleaned and parsed *)
OracleReceived(t, o) ==
    /\ pc[t] = "generateContent"
    /\ IF ~o.ok
       THEN AnalyzeCatch(t, HttpError(o.status)) /\ UNCHANGED pending
       ELSE IF JsonParseThrows(o.reply)
       THEN AnalyzeCatch(t, SyntaxError) /\ UNCHANGED pending
       ELSE IF FieldReadThrows(o.reply)
       THEN AnalyzeCatch(t, TypeError) /\ UNCHANGED pending
       ELSE /\ pending' = [pending EXCEPT ![t] = FinalResult(o.reply, data[t], now)]
            /\ pc' = [pc EXCEPT ![t] = "create"]
            /\ UNCHANGED <<ai, lastError, isApiBlocked, blockUntil, rateLimitedAt>>
    /\ UNCHANGED <<now, store, oracleCalls, kind, batch, rows, idx, data, response,
                   trace, enteredInWindow>>

(* the oracle's reply given as what it is once cleaned *)
OracleSettled(t, o) ==
    /\ OracleReceived(t, o)
    /\ UNCHANGED classifierVars

(* lines 126-130: DeviceTelemetry.create(recordToSave) settles *)
CreateSettled(t, ok) ==
    /\ pc[t] = "create"
    /\ IF ok
       THEN /\ store' = Create(store, RecordToSave(data[t], pending[t]))
            /\ isApiBlocked' = [isApiBlocked EXCEPT ![t] = FALSE]
            /\ AnalyzeReturn(t, pending[t])
            /\ UNCHANGED <<lastError, blockUntil, rateLimitedAt>>
       ELSE /\ AnalyzeCatch(t, StoreError("create"))
            /\ UNCHANGED store
    /\ UNCHANGED <<now, oracleCalls, kind, batch, rows, idx, data, pending, response,
                   trace, enteredInWindow>>
    /\ UNCHANGED classifierVars

----------------------------------------------------------------------------
(* POST /api/telemetry *)

(* IngestCatch undoing the batch: the rows bulkCreate inserted are deleted *)
IngestCatchRollback(t, err) ==
    /\ response' = [response EXCEPT ![t] = [status |-> 500, error |-> err]]
    /\ pc' = [pc EXCEPT ![t] = "done"]
    /\ store' = IF rows[t] = <<>> THEN store ELSE SubSeq(store, 1, rows[t][1] - 1)

(* the handler's catch, lines 94-97 *)
IngestCatch(t, err) ==
    /\ response' = [response EXCEPT ![t] = [status |-> 500, error |-> err]]
    /\ pc' = [pc EXCEPT ![t] = "done"]
    /\ UNCHANGED store

(* lines 35-40: the request arrives and bulkCreate is awaited *)
Receive(t, b) ==
    /\ kind[t] = "ingest"
    /\ pc[t] = "idle"
    /\ batch' = [batch EXCEPT ![t] = b]
    /\ pc' = [pc EXCEPT ![t] = "bulkCreate"]
    /\ UNCHANGED <<now, store, oracleCalls, rateLimitedAt, kind, rows, idx, data,
                   isApiBlocked, blockUntil, pending, ai, lastError, response, trace,
                   enteredInWindow>>
    /\ UNCHANGED classifierVars

(* BulkCreateSettled with bulkCreate not awaited: the loop starts on the *)
(* batch while the insert is still in flight                            *)
BulkCreateUnawaited(t, ok) ==
    /\ pc[t] = "bulkCreate"
    /\ rows' = [rows EXCEPT ![t] = [i \in 1..Len(batch[t]) |-> Len(store) + i]]
    /\ idx' = [idx EXCEPT ![t] = 1]
    /\ pc' = [pc EXCEPT ![t] = "loop"]
    /\ UNCHANGED <<store, trace, response>>
    /\ UNCHANGED <<now, oracleCalls, rateLimitedAt, kind, batch, data, isApiBlocked,
                   blockUntil, pending, ai, lastError, enteredInWindow>>
    /\ UNCHANGED classifierVars

(* BulkCreateSettled with the failure answered but not returned from: the *)
(* error response is sent and the loop runs on the batch all the same     *)
BulkCreateNoReturn(t, ok) ==
    /\ pc[t] = "bulkCreate"
    /\ rows' = [rows EXCEPT ![t] = [i \in 1..Len(batch[t]) |-> Len(store) + i]]
    /\ idx' = [idx EXCEPT ![t] = 1]
    /\ pc' = [pc EXCEPT ![t] = "loop"]
    /\ IF ok
       THEN /\ store' = BulkCreate(store, batch[t])
            /\ trace' = [trace EXCEPT ![t] = Append(@, Event("persist", 0))]
            /\ UNCHANGED response
       ELSE /\ response' = [response EXCEPT
                               ![t] = [status |-> 500, error |-> StoreError("bulkCreate")]]
            /\ UNCHANGED <<store, trace>>
    /\ UNCHANGED <<now, oracleCalls, rateLimitedAt, kind, batch, data, isApiBlocked,
                   blockUntil, pending, ai, lastError, enteredInWindow>>
    /\ UNCHANGED classifierVars

(* line 40: bulkCreate settles *)
BulkCreateSettled(t, ok) ==
    /\ pc[t] = "bulkCreate"
    /\ IF ok
       THEN /\ store' = BulkCreate(store, batch[t])
            /\ rows' = [rows EXCEPT ![t] = [i \in 1..Len(batch[t]) |-> Len(store) + i]]
            /\ idx' = [idx EXCEPT ![t] = 1]
            /\ trace' = [trace EXCEPT ![t] = Append(@, Event("persist", 0))]
            /\ pc' = [pc EXCEPT ![t] = "loop"]
            /\ UNCHANGED response
       ELSE /\ IngestCatch(t, StoreError("bulkCreate"))
            /\ UNCHANGED <<rows, idx, trace>>
    /\ UNCHANGED <<now, oracleCalls, rateLimitedAt, kind, batch, data, isApiBlocked,
                   blockUntil, pending, ai, lastError, enteredInWindow>>
    /\ UNCHANGED classifierVars

TelemetryData(rec) ==
    [current |-> rec.current, temperature |-> rec.temperature,
     threshold |-> CURRENT_THRESHOLD]

(* lines 44-59: one iteration of the for-loop, up to its await *)
LoopStep(t) ==
    /\ pc[t] = "loop"
    /\ LET k == idx[t]
       IN IF k > Len(rows[t])
          THEN /\ pc' = [pc EXCEPT ![t] = "findAll"]
               /\ UNCHANGED <<idx, trace, data, isApiBlocked, blockUntil, lastError,
                              enteredInWindow, ai, oracleCalls>>
          ELSE IF Greater(batch[t][k].current, CURRENT_THRESHOLD)
          THEN /\ AnalyzeEnter(t, TelemetryData(batch[t][k]),
                               trace[t] \o <<Event("check", k), Event("analyze", k)>>, k)
               /\ UNCHANGED idx
          ELSE /\ idx' = [idx EXCEPT ![t] = k + 1]
               /\ trace' = [trace EXCEPT ![t] = Append(@, Event("check", k))]
               /\ UNCHANGED <<pc, data, isApiBlocked, blockUntil, lastError,
                              enteredInWindow, ai, oracleCalls>>
    /\ UNCHANGED <<now, store, rateLimitedAt, kind, batch, rows, pending, response>>
    /\ UNCHANGED classifierVars

(* lines 65-70: data.update settles *)
UpdateSettled(t, ok) ==
    /\ pc[t] = "update"
    /\ IF ok
       THEN /\ store' = Update(store, rows[t][idx[t]], ai[t])
            /\ trace' = [trace EXCEPT ![t] = Append(@, Event("attach", idx[t]))]
            /\ idx' = [idx EXCEPT ![t] = @ + 1]
            /\ pc' = [pc EXCEPT ![t] = "loop"]
            /\ UNCHANGED response
       ELSE /\ IngestCatch(t, StoreError("update"))
            /\ UNCHANGED <<trace, idx>>
    /\ UNCHANGED <<now, oracleCalls, rateLimitedAt, kind, batch, rows, data, isApiBlocked,
                   blockUntil, pending, ai, lastError, enteredInWindow>>
    /\ UNCHANGED classifierVars

(* lines 85-93: findAll settles and the response is sent *)
FindAllSettled(t, ok) ==
    /\ pc[t] = "findAll"
    /\ IF ok
       THEN /\ response' = [response EXCEPT ![t] = [status |-> 200, error |-> NoError]]
            /\ pc' = [pc EXCEPT ![t] = "done"]
            /\ UNCHANGED store
       ELSE IngestCatch(t, StoreError("findAll"))
    /\ UNCHANGED <<now, oracleCalls, rateLimitedAt, kind, batch, rows, idx, data,
                   isApiBlocked, blockUntil, pending, ai, lastError, trace, enteredInWindow>>
    /\ UNCHANGED classifierVars

(* time passes *)
Tick ==
    /\ now < MinuteMs + MaxTicks * TickMs
    /\ now' = now + TickMs
    /\ UNCHANGED <<store, oracleCalls, rateLimitedAt, kind, pc, batch, rows, idx, data,
                   isApiBlocked, blockUntil, pending, ai, lastError, response, trace,
                   enteredInWindow>>
    /\ UNCHANGED classifierVars

Next ==
    \/ \E t \in Tasks, b \in Batches : Receive(t, b)
    \/ \E t \in Tasks, ok \in BOOLEAN : BulkCreateSettled(t, ok)
    \/ \E t \in Tasks : LoopStep(t)
    \/ \E t \in Tasks, o \in OracleOutcomes : OracleSettled(t, o)
    \/ \E t \in Tasks, ok \in BOOLEAN : CreateSettled(t, ok)
    \/ \E t \in Tasks, ok \in BOOLEAN : UpdateSettled(t, ok)
    \/ \E t \in Tasks, ok \in BOOLEAN : FindAllSettled(t, ok)
    \/ Tick

Spec == Init /\ [][Next]_vars

NextAnalyze ==
    \/ \E t \in Tasks, d \in DirectData : StartAnalyze(t, d)
    \/ \E t \in Tasks, o \in OracleOutcomes : OracleSettled(t, o)
    \/ \E t \in Tasks, ok \in BOOLEAN : CreateSettled(t, ok)
    \/ Tick

SpecAnalyze == InitAnalyze /\ [][NextAnalyze]_vars

----------------------------------------------------------------------------
(* Properties of the pipeline *)

Severities == {"CRITICAL", "WARNING", "NORMAL", "UNKNOWN"}

Events(t, e) == {i \in 1..Len(trace[t]) : trace[t][i][1] = e}
EventsFor(t, e, k) == {i \in 1..Len(trace[t]) : trace[t][i] = Event(e, k)}
Persisted(t) == Events(t, "persist") # {}
Exceeding(t, k) == Greater(batch[t][k].current, CURRENT_THRESHOLD)
Returned(t) == pc[t] \in {"returned", "update"}

(* C1: once an analyze call has received a 429 from the oracle, no analyze   *)
(* call entered before the cool-down window (BlockMs after the 429) elapsed  *)
(* dispatches to the oracle.                                                 *)
C1_NoDispatchInsideWindow ==
    \A t \in Tasks : pc[t] = "generateContent" => ~enteredInWindow[t]

(* C2: analyzeHighCurrent never fails its caller: whatever the input and the *)
(* oracle's or the store's outcome, the call ends by returning an            *)
(* AnalysisResult, never by throwing.                                        *)
C2_AnalyzeAlwaysReturns ==
    \A t \in Tasks :
        /\ pc[t] # "threw"
        /\ pc[t] = "returned" =>
              /\ ai[t] # NoResult
              /\ ai[t].isCurrentExceeded = Greater(data[t].current, data[t].threshold)
              /\ ai[t].analysisTimestamp = now \/ ai[t].analysisTimestamp < now

C2_Witness ==
    \E t \in Tasks : pc[t] = "returned" /\ lastError[t] = StoreError("create")

(* C3: the severity of every result analyze returns is one of CRITICAL,      *)
(* WARNING, NORMAL, UNKNOWN, whatever the oracle replied.                    *)
C3_SeverityInRange ==
    \A t \in Tasks : Returned(t) => ai[t].severity \in Severities

(* C4: when analyze falls back (its catch block ran), the severity depends   *)
(* on current and threshold alone: CRITICAL when current is more than 50%    *)
(* over the threshold, WARNING when it is over by at most 50%, NORMAL when   *)
(* current <= threshold (and when current is missing).                       *)
C4_FallbackSeverity ==
    \A t \in Tasks :
        (Returned(t) /\ lastError[t] # NoError) =>
            LET c == data[t].current
                th == data[t].threshold
            IN /\ (c # Missing /\ 2 * c[1] > 3 * th) => ai[t].severity = "CRITICAL"
               /\ (c # Missing /\ c[1] > th /\ 2 * c[1] <= 3 * th) => ai[t].severity = "WARNING"
               /\ (c # Missing /\ c[1] <= th) => ai[t].severity = "NORMAL"
               /\ c = Missing => ai[t].severity = "NORMAL"

C4_Witness ==
    \E t \in Tasks :
        /\ pc[t] = "returned"
        /\ lastError[t] = HttpError(500)
        /\ data[t] = [current |-> Num(75), temperature |-> Num(90), threshold |-> 50]
        /\ ai[t].severity = "WARNING"

(* C5: once bulkCreate has succeeded for a batch, every record of the batch  *)
(* is in the store with its readings, in every later state of the call and  *)
(* when it has answered, whatever failed afterwards.                         *)
C5_NoAcceptedRecordLost ==
    \A t \in Tasks :
        Persisted(t) =>
            /\ Len(rows[t]) = Len(batch[t])
            /\ \A k \in 1..Len(batch[t]) :
                  /\ rows[t][k] \in DOMAIN store
                  /\ store[rows[t][k]].current = batch[t][k].current
                  /\ store[rows[t][k]].temperature = batch[t][k].temperature

C5_Witness ==
    \E t \in Tasks :
        /\ pc[t] = "done"
        /\ response[t] = [status |-> 500, error |-> StoreError("update")]
        /\ lastError[t] = HttpError(RateLimitStatus)
        /\ Len(batch[t]) = 2
        /\ Persisted(t)

(* C6: within an ingest call the bulk-persist comes first; then the records  *)
(* are taken in order, each one checked against the threshold, then          *)
(* analysed, then its result attached; the check (and so the analysis) of    *)
(* record k+1 follows the attach of record k, or its check when it did not   *)
(* exceed.                                                                   *)
C6_IngestOrdering ==
    \A t \in Tasks :
        kind[t] = "ingest" =>
            \A i \in 1..Len(trace[t]) :
                LET e == trace[t][i][1]
                    k == trace[t][i][2]
                    before == IF i = 1 THEN Event("start", 0) ELSE trace[t][i - 1]
                IN /\ e = "persist" => i = 1
                   /\ e = "check" =>
                         IF k = 1 THEN before = Event("persist", 0)
                         ELSE before \in {Event("check", k - 1), Event("attach", k - 1)}
                   /\ e = "analyze" => before = Event("check", k) /\ Exceeding(t, k)
                   /\ e = "oracle" => before = Event("analyze", k)
                   /\ e = "attach" => before \in {Event("analyze", k), Event("oracle", k)}

C6_Witness ==
    \E t \in Tasks :
        trace[t] = <<Event("persist", 0),
                     Event("check", 1), Event("analyze", 1), Event("oracle", 1), Event("attach", 1),
                     Event("check", 2), Event("analyze", 2), Event("oracle", 2)>>

(* C7: when an ingest call whose bulk-persist succeeded has answered (200 or *)
(* 500), each record over the threshold has been analysed exactly once and   *)
(* its result attached exactly once, and no other record has been analysed.  *)
C7_AnalysedExactlyOnce ==
    \A t \in Tasks :
        (pc[t] = "done" /\ Persisted(t)) =>
            \A k \in 1..Len(batch[t]) :
                IF Exceeding(t, k)
                THEN /\ Cardinality(EventsFor(t, "analyze", k)) = 1
                     /\ Cardinality(EventsFor(t, "attach", k)) = 1
                ELSE /\ EventsFor(t, "analyze", k) = {}
                     /\ EventsFor(t, "attach", k) = {}

(* C8: after an ingest call answered 200, every record of the batch over the *)
(* threshold is stored with isCurrentExceeded = true and with a severity.    *)
C8_ExceededStoredWithFlag ==
    \A t \in Tasks :
        (pc[t] = "done" /\ response[t].status = 200) =>
            \A k \in 1..Len(batch[t]) :
                Exceeding(t, k) =>
                    /\ store[rows[t][k]].isCurrentExceeded = Some(TRUE)
                    /\ store[rows[t][k]].severity # Null

(* C9: when bulkCreate fails, the call answers with an error (500), no       *)
(* record of the batch is checked or analysed and the oracle is not called.  *)
C9_PersistFailureFailsCall ==
    \A t \in Tasks :
        response[t].error = StoreError("bulkCreate") =>
            /\ response[t].status = 500
            /\ pc[t] = "done"
            /\ trace[t] = <<>>
            /\ oracleCalls = 0

C9_Witness ==
    \E t \in Tasks :
        /\ response[t] = [status |-> 500, error |-> StoreError("bulkCreate")]
        /\ Len(batch[t]) = 2
        /\ Exceeding(t, 1)

----------------------------------------------------------------------------
(* The keyword classifier of the conversational agent.  A text is the       *)
(* sequence of its characters.                                              *)

MaxFragments == 3

UpperCase == <<"A", "B", "C", "D", "E", "F", "G", "H", "I", "J", "K", "L", "M",
               "N", "O", "P", "Q", "R", "S", "T", "U", "V", "W", "X", "Y", "Z">>
LowerCase == <<"a", "b", "c", "d", "e", "f", "g", "h", "i", "j", "k", "l", "m",
               "n", "o", "p", "q", "r", "s", "t", "u", "v", "w", "x", "y", "z">>

(* String.prototype.toLowerCase *)
ToLowerChar(c) ==
    IF \E i \in 1..Len(UpperCase) : UpperCase[i] = c
    THEN LowerCase[CHOOSE i \in 1..Len(UpperCase) : UpperCase[i] = c]
    ELSE c
ToLowerCase(text) == [i \in 1..Len(text) |-> ToLowerChar(text[i])]

(* String.prototype.includes: the keyword occurs at some position *)
Includes(text, kw) ==
    \E at \in 0..(Len(text) - Len(kw)) : \A j \in 1..Len(kw) : text[at + j] = kw[j]

KwListTables == <<"l", "i", "s", "t", " ", "t", "a", "b", "l", "e", "s">>
KwShowTables == <<"s", "h", "o", "w", " ", "t", "a", "b", "l", "e", "s">>
KwWhatTables == <<"w", "h", "a", "t", " ", "t", "a", "b", "l", "e", "s">>
KwSchema == <<"s", "c", "h", "e", "m", "a">>
KwStructure == <<"s", "t", "r", "u", "c", "t", "u", "r", "e">>
KwColumns == <<"c", "o", "l", "u", "m", "n", "s">>
KwSql == <<"s", "q", "l">>
KwQuery == <<"q", "u", "e", "r", "y">>
KwSelect == <<"s", "e", "l", "e", "c", "t">>
KwAnalyze == <<"a", "n", "a", "l", "y", "z", "e">>
KwData == <<"d", "a", "t", "a">>
KwFind == <<"f", "i", "n", "d">>
KwCount == <<"c", "o", "u", "n", "t">>
KwHowMany == <<"h", "o", "w", " ", "m", "a", "n", "y">>
KwLatest == <<"l", "a", "t", "e", "s", "t">>

(* The questions asked: up to MaxFragments of these pieces, joined *)
FrList == <<"l", "i", "s", "t">>
FrShow == <<"S", "h", "o", "w">>
FrWhat == <<"W", "h", "a", "t">>
FrTables == <<" ", "t", "a", "b", "l", "e", "s">>
FrTablesUpper == <<" ", "T", "A", "B", "L", "E", "S">>
FrSchemaOf == <<" ", "s", "c", "h", "e", "m", "a", " ", "o", "f", " ", "u", "s", "e", "r", "s">>
FrStructureColumns == <<" ", "s", "t", "r", "u", "c", "t", "u", "r", "e", " ", "c", "o", "l", "u", "m", "n", "s">>
FrSqlQuerySelect == <<" ", "s", "q", "l", " ", "q", "u", "e", "r", "y", " ", "s", "e", "l", "e", "c", "t">>
FrAnalyzeDataFind == <<" ", "a", "n", "a", "l", "y", "z", "e", " ", "d", "a", "t", "a", " ", "f", "i", "n", "d">>
FrCountHowMany == <<" ", "c", "o", "u", "n", "t", " ", "h", "o", "w", " ", "m", "a", "n", "y">>
FrLatest == <<" ", "l", "a", "t", "e", "s", "t">>
FrThe == <<" ", "t", "h", "e">>
Fragments ==
    {FrList, FrShow, FrWhat, FrTables,
     FrTablesUpper, FrSchemaOf, FrStructureColumns, FrSqlQuerySelect,
     FrAnalyzeDataFind, FrCountHowMany, FrLatest, FrThe}

RECURSIVE Joined(_)
Joined(n) ==
    IF n = 0 THEN {<<>>}
    ELSE LET shorter == Joined(n - 1)
         IN shorter \cup {q \o f : q \in shorter, f \in Fragments}

Questions == Joined(MaxFragments)

(* an action is absent or a text *)
ActCountRecords == <<"c", "o", "u", "n", "t", "_", "r", "e", "c", "o", "r", "d", "s">>

Classified(type, tool, action) == [type |-> type, tool |-> tool, action |-> action]
Unclassified == Classified("none", "none", Missing)

(* classifyQuery with the schema rule tried before the table-listing rule *)
classifyQuerySchemaFirst(input) ==
    LET lowerInput == ToLowerCase(input)
    IN IF Includes(lowerInput, KwSchema) \/ Includes(lowerInput, KwStructure)
          \/ Includes(lowerInput, KwColumns)
       THEN Classified("tool_specific", "getSchema", Missing)
       ELSE IF Includes(lowerInput, KwListTables) \/ Includes(lowerInput, KwShowTables)
          \/ Includes(lowerInput, KwWhatTables)
       THEN Classified("tool_specific", "listTables", Missing)
       ELSE IF Includes(lowerInput, KwSql) \/ Includes(lowerInput, KwQuery)
          \/ Includes(lowerInput, KwSelect) \/ Includes(lowerInput, KwAnalyze)
          \/ Includes(lowerInput, KwData) \/ Includes(lowerInput, KwFind)
       THEN Classified("tool_specific", "langchain", Missing)
       ELSE IF Includes(lowerInput, KwCount) \/ Includes(lowerInput, KwHowMany)
          \/ Includes(lowerInput, KwLatest)
       THEN Classified("simple", "none", Some(ActCountRecords))
       ELSE Classified("complex", "none", Missing)

(* classifyQuery with the simple-aggregate rule tried before the data rule *)
classifyQuerySimpleFirst(input) ==
    LET lowerInput == ToLowerCase(input)
    IN IF Includes(lowerInput, KwListTables) \/ Includes(lowerInput, KwShowTables)
          \/ Includes(lowerInput, KwWhatTables)
       THEN Classified("tool_specific", "listTables", Missing)
       ELSE IF Includes(lowerInput, KwSchema) \/ Includes(lowerInput, KwStructure)
          \/ Includes(lowerInput, KwColumns)
       THEN Classified("tool_specific", "getSchema", Missing)
       ELSE IF Includes(lowerInput, KwCount) \/ Includes(lowerInput, KwHowMany)
          \/ Includes(lowerInput, KwLatest)
       THEN Classified("simple", "none", Some(ActCountRecords))
       ELSE IF Includes(lowerInput, KwSql) \/ Includes(lowerInput, KwQuery)
          \/ Includes(lowerInput, KwSelect) \/ Includes(lowerInput, KwAnalyze)
          \/ Includes(lowerInput, KwData) \/ Includes(lowerInput, KwFind)
       THEN Classified("tool_specific", "langchain", Missing)
       ELSE Classified("complex", "none", Missing)

classifyQuery(input) ==
    LET lowerInput == ToLowerCase(input)
    IN IF Includes(lowerInput, KwListTables) \/ Includes(lowerInput, KwShowTables)
          \/ Includes(lowerInput, KwWhatTables)
       THEN Classified("tool_specific", "listTables", Missing)
       ELSE IF Includes(lowerInput, KwSchema) \/ Includes(lowerInput, KwStructure)
          \/ Includes(lowerInput, KwColumns)
       THEN Classified("tool_specific", "getSchema", Missing)
       ELSE IF Includes(lowerInput, KwSql) \/ Includes(lowerInput, KwQuery)
          \/ Includes(lowerInput, KwSelect) \/ Includes(lowerInput, KwAnalyze)
          \/ Includes(lowerInput, KwData) \/ Includes(lowerInput, KwFind)
       THEN Classified("tool_specific", "langchain", Missing)
       ELSE IF Includes(lowerInput, KwCount) \/ Includes(lowerInput, KwHowMany)
          \/ Includes(lowerInput, KwLatest)
       THEN Classified("simple", "none", Some(ActCountRecords))
       ELSE Classified("complex", "none", Missing)

(* getConversationalResponse(input, sessionId) is called *)
Ask(q) ==
    /\ question = <<>>
    /\ classification = Unclassified
    /\ question' = q
    /\ UNCHANGED classification
    /\ UNCHANGED agentVars
    /\ UNCHANGED pipelineVars

(* line 122: const classification = await classifyQuery(input) *)
Classify ==
    /\ rpc = "idle"
    /\ classification = Unclassified
    /\ classification' = classifyQuery(question)
    /\ UNCHANGED question
    /\ UNCHANGED agentVars
    /\ UNCHANGED pipelineVars

NextClassify ==
    \/ \E q \in Questions \ {<<>>} : Ask(q)
    \/ Classify

(* no request of the pipeline; one question *)
InitClassify == InitPipeline(<<"off", "off">>) /\ InitClassifier

SpecClassify == InitClassify /\ [][NextClassify]_vars

(* the text has the keyword as a contiguous part *)
Contains(text, kw) ==
    \E i \in 1..Len(text) :
        i + Len(kw) - 1 <= Len(text) /\ SubSeq(text, i, i + Len(kw) - 1) = kw

AsksForTableList(text) ==
    \/ Contains(ToLowerCase(text), KwListTables)
    \/ Contains(ToLowerCase(text), KwShowTables)
    \/ Contains(ToLowerCase(text), KwWhatTables)

OtherKeywords ==
    {KwSchema, KwStructure, KwColumns, KwSql, KwQuery, KwSelect, KwAnalyze, KwData,
     KwFind, KwCount, KwHowMany, KwLatest}

(* C10: every question whose lower-cased text contains "list tables", "show  *)
(* tables" or "what tables" is classified tool_specific / listTables,        *)
(* whatever other keywords it contains.                                      *)
C10_TableListingFirst ==
    (classification # Unclassified /\ AsksForTableList(question)) =>
        (classification.type = "tool_specific" /\ classification.tool = "listTables")

C10_Witness ==
    /\ question = FrShow \o FrTablesUpper \o FrSchemaOf
    /\ \E kw \in OtherKeywords : Contains(ToLowerCase(question), kw)
    /\ classification = Classified("tool_specific", "listTables", Missing)

ContainsAny(text, kws) == \E kw \in kws : Contains(ToLowerCase(text), kw)

SchemaKeywords == {KwSchema, KwStructure, KwColumns}
DataKeywords == {KwSql, KwQuery, KwSelect, KwAnalyze, KwData, KwFind}
SimpleKeywords == {KwCount, KwHowMany, KwLatest}

(* C11: the keyword classifier is first-match-wins over the order table      *)
(* listing, schema, data/analysis, simple, complex: a schema keyword without *)
(* a table-listing phrase gives getSchema whatever data or count keywords    *)
(* follow; a data/analysis keyword with no earlier match gives the SQL       *)
(* analysis tool even with "count", "how many" or "latest"; simple is        *)
(* returned only when no earlier rule matches and complex only when no rule  *)
(* matches.                                                                  *)
C11_FirstMatchWins ==
    classification # Unclassified =>
        LET list == AsksForTableList(question)
            schema == ContainsAny(question, SchemaKeywords)
            analysis == ContainsAny(question, DataKeywords)
            simple == ContainsAny(question, SimpleKeywords)
        IN /\ (~list /\ schema) =>
                  classification = Classified("tool_specific", "getSchema", Missing)
           /\ (~list /\ ~schema /\ analysis) =>
                  classification = Classified("tool_specific", "langchain", Missing)
           /\ classification.type = "simple" <=>
                  (~list /\ ~schema /\ ~analysis /\ simple)
           /\ classification.type = "complex" <=>
                  (~list /\ ~schema /\ ~analysis /\ ~simple)

C11_Witness ==
    /\ question = FrAnalyzeDataFind \o FrCountHowMany \o FrLatest
    /\ ContainsAny(question, SimpleKeywords)
    /\ classification = Classified("tool_specific", "langchain", Missing)

----------------------------------------------------------------------------
(* The hybrid agent: keyword rules first, then the oracle as classifier.    *)

MaxHybridFragments == 2

KwMaximum == <<"m", "a", "x", "i", "m", "u", "m">>
KwMax == <<"m", "a", "x">>
KwAverage == <<"a", "v", "e", "r", "a", "g", "e">>
KwAvg == <<"a", "v", "g">>
KwRange == <<"r", "a", "n", "g", "e">>
KwPerformance == <<"p", "e", "r", "f", "o", "r", "m", "a", "n", "c", "e">>
KwCurrent == <<"c", "u", "r", "r", "e", "n", "t">>
KwTemperature == <<"t", "e", "m", "p", "e", "r", "a", "t", "u", "r", "e">>
KwVoltage == <<"v", "o", "l", "t", "a", "g", "e">>
KwTable == <<"t", "a", "b", "l", "e">>
KwColumn == <<"c", "o", "l", "u", "m", "n">>
KwDatabaseStructure ==
    <<"d", "a", "t", "a", "b", "a", "s", "e", " ", "s", "t", "r", "u", "c", "t", "u", "r", "e">>
KwHowManyTables == <<"h", "o", "w", " ", "m", "a", "n", "y", " ", "t", "a", "b", "l", "e", "s">>
KwDevice == <<"d", "e", "v", "i", "c", "e">>
KwDevices == <<"d", "e", "v", "i", "c", "e", "s">>
KwCompare == <<"c", "o", "m", "p", "a", "r", "e">>
KwRelationship == <<"r", "e", "l", "a", "t", "i", "o", "n", "s", "h", "i", "p">>
KwBetween == <<"b", "e", "t", "w", "e", "e", "n">>
KwAnd == <<"a", "n", "d">>
KwThen == <<"t", "h", "e", "n">>
KwSimplePrefix == <<"s", "i", "m", "p", "l", "e", ":">>

(* String.prototype.trim *)
IsSpace(c) == c \in {" ", "\n", "\t", "\r"}
RECURSIVE TrimStart(_)
TrimStart(text) ==
    IF text # <<>> /\ IsSpace(Head(text)) THEN TrimStart(Tail(text)) ELSE text
RECURSIVE TrimEnd(_)
TrimEnd(text) ==
    IF text # <<>> /\ IsSpace(text[Len(text)])
    THEN TrimEnd(SubSeq(text, 1, Len(text) - 1))
    ELSE text
Trim(text) == TrimEnd(TrimStart(text))

(* String.prototype.startsWith *)
StartsWith(text, prefix) ==
    /\ Len(prefix) <= Len(text)
    /\ \A i \in 1..Len(prefix) : text[i] = prefix[i]

(* text.split(':'): the pieces between the colons *)
RECURSIVE Split(_)
Split(text) ==
    IF \E i \in 1..Len(text) : text[i] = ":"
    THEN LET at == CHOOSE i \in 1..Len(text) :
                       text[i] = ":" /\ \A j \in 1..(i - 1) : text[j] # ":"
         IN <<SubSeq(text, 1, at - 1)>> \o Split(SubSeq(text, at + 1, Len(text)))
    ELSE <<text>>

(* the questions asked of the hybrid agent *)
HfMaximum == <<"M", "a", "x", "i", "m", "u", "m">>
HfAverage == <<" ", "a", "v", "e", "r", "a", "g", "e">>
HfCurrent == <<" ", "C", "U", "R", "R", "E", "N", "T">>
HfTemperature == <<" ", "t", "e", "m", "p", "e", "r", "a", "t", "u", "r", "e">>
HfVoltage == <<" ", "v", "o", "l", "t", "a", "g", "e">>
HfDevice == <<" ", "D", "e", "v", "i", "c", "e">>
HfHowMany == <<"h", "o", "w", " ", "m", "a", "n", "y">>
HfCount == <<" ", "c", "o", "u", "n", "t">>
HfLatest == <<" ", "l", "a", "t", "e", "s", "t">>
HfTables == <<" ", "t", "a", "b", "l", "e", "s">>
HfSelect == <<" ", "s", "e", "l", "e", "c", "t">>
HfThen == <<" ", "t", "h", "e", "n">>
HybridFragments ==
    {HfMaximum, HfAverage, HfCurrent, HfTemperature, HfVoltage, HfDevice,
     HfHowMany, HfCount, HfLatest, HfTables, HfSelect, HfThen}

RECURSIVE HybridJoined(_)
HybridJoined(n) ==
    IF n = 0 THEN {<<>>}
    ELSE LET shorter == HybridJoined(n - 1)
         IN shorter \cup {q \o f : q \in shorter, f \in HybridFragments}

HybridQuestions == HybridJoined(MaxHybridFragments) \ {<<>>}

(* a call that leaves the agent: to the oracle, the store or a tool *)
Call(op, by, arg) == [op |-> op, by |-> by, arg |-> arg]

(* error.message of the failure of a store, oracle or tool call *)
StoreErrorMessage == "store unavailable"
OracleErrorMessage == "oracle unavailable"
ToolErrorMessage == "datasource unavailable"

(* what the oracle answers to the classifier prompt: a text, or the call fails *)
RpCountRecords ==
    <<"s", "i", "m", "p", "l", "e", ":", "c", "o", "u", "n", "t", "_", "r", "e", "c", "o", "r", "d", "s">>
RpLatestDataPadded ==
    <<" ", "S", "I", "M", "P", "L", "E", ":", "L", "a", "t", "e", "s", "t", "_", "D", "a", "t", "a", "\n">>
RpComplex == <<"c", "o", "m", "p", "l", "e", "x">>
RpSimpleNoAction == <<"s", "i", "m", "p", "l", "e", ":">>
RpSimpleTwoColons ==
    <<"s", "i", "m", "p", "l", "e", ":", "l", "a", "t", "e", "s", "t", "_", "d", "a", "t", "a", ":", "r", "e", "c", "e", "n", "t">>
RpSimpleInside ==
    <<"i", "t", " ", "i", "s", " ", "s", "i", "m", "p", "l", "e", ":", "c", "o", "u", "n", "t", "_", "r", "e", "c", "o", "r", "d", "s">>
RpEmpty == <<>>
RpSimpleNoColon == <<"s", "i", "m", "p", "l", "e">>
RpSimpleUnknown ==
    <<"s", "i", "m", "p", "l", "e", ":", "t", "o", "t", "a", "l", "_", "d", "e", "v", "i", "c", "e", "s">>
ClassifierReplies ==
    {RpCountRecords, RpLatestDataPadded, RpComplex, RpSimpleNoAction,
     RpSimpleTwoColons, RpSimpleInside, RpEmpty, RpSimpleNoColon, RpSimpleUnknown}
InvokeFailed == [ok |-> FALSE, content |-> <<>>]
InvokeReturned(content) == [ok |-> TRUE, content |-> content]
ClassifierOutcomes == {InvokeReturned(c) : c \in ClassifierReplies} \cup {InvokeFailed}

(* lines 29-57 with the device test moved in front of the metric test *)
HybridKeywordRuleDeviceFirst(input) ==
    LET lowerInput == ToLowerCase(input)
        has(kw) == Includes(lowerInput, kw)
    IN IF (has(KwDevice) \/ has(KwDevices))
          /\ ~has(KwCurrent) /\ ~has(KwTemperature) /\ ~has(KwVoltage)
       THEN "device"
       ELSE IF has(KwMaximum) \/ has(KwMax) \/ has(KwAverage) \/ has(KwAvg) \/ has(KwRange)
          \/ has(KwPerformance) \/ has(KwCurrent) \/ has(KwTemperature) \/ has(KwVoltage)
       THEN "metric"
       ELSE IF has(KwTable) \/ has(KwSchema) \/ has(KwStructure) \/ has(KwColumn)
          \/ has(KwDatabaseStructure) \/ has(KwHowManyTables) \/ has(KwWhatTables)
       THEN "schema"
       ELSE IF has(KwSql) \/ has(KwQuery) \/ has(KwSelect)
       THEN "sql"
       ELSE IF has(KwCompare) \/ has(KwAnalyze) \/ has(KwRelationship) \/ has(KwBetween)
          \/ has(KwAnd) \/ has(KwThen)
       THEN "multi-step"
       ELSE "none"

(* lines 26-57: the keyword rule that returns, "none" when the oracle is asked *)
HybridKeywordRule(input) ==
    LET lowerInput == ToLowerCase(input)
        has(kw) == Includes(lowerInput, kw)
    IN IF has(KwMaximum) \/ has(KwMax) \/ has(KwAverage) \/ has(KwAvg) \/ has(KwRange)
          \/ has(KwPerformance) \/ has(KwCurrent) \/ has(KwTemperature) \/ has(KwVoltage)
       THEN "metric"
       ELSE IF has(KwTable) \/ has(KwSchema) \/ has(KwStructure) \/ has(KwColumn)
          \/ has(KwDatabaseStructure) \/ has(KwHowManyTables) \/ has(KwWhatTables)
       THEN "schema"
       ELSE IF (has(KwDevice) \/ has(KwDevices))
          /\ ~has(KwCurrent) /\ ~has(KwTemperature) /\ ~has(KwVoltage)
       THEN "device"
       ELSE IF has(KwSql) \/ has(KwQuery) \/ has(KwSelect)
       THEN "sql"
       ELSE IF has(KwCompare) \/ has(KwAnalyze) \/ has(KwRelationship) \/ has(KwBetween)
          \/ has(KwAnd) \/ has(KwThen)
       THEN "multi-step"
       ELSE "none"

(* lines 88-95 without toLowerCase *)
ParseClassifierResponseCaseSensitive(content) ==
    LET text == Trim(content)
    IN IF StartsWith(text, KwSimplePrefix)
       THEN Classified("simple", "none", Some(Split(text)[2]))
       ELSE Classified("complex", "none", Missing)

(* lines 88-95: content.toString().trim().toLowerCase(), then the prefix test *)
ParseClassifierResponse(content) ==
    LET text == ToLowerCase(Trim(content))
    IN IF StartsWith(text, KwSimplePrefix)
       THEN Classified("simple", "none", Some(Split(text)[2]))
       ELSE Classified("complex", "none", Missing)

(* getConversationalResponse(input, sessionId) of the hybrid agent is called *)
HybridAsk(q) ==
    /\ rpc = "idle"
    /\ question = <<>>
    /\ classification = Unclassified
    /\ question' = q
    /\ rpc' = "classifyQuery"
    /\ UNCHANGED <<classification, calls, rule, replies, rejection, answer>>
    /\ UNCHANGED <<toolkit, inflight, failures, cont>>
    /\ UNCHANGED pipelineVars

(* classifyQuery up to its first return or to the await of line 87 *)
HybridKeywordRules ==
    /\ rpc = "classifyQuery"
    /\ LET matched == HybridKeywordRule(question)
       IN IF matched # "none"
          THEN /\ classification' = Classified("complex", "none", Missing)
               /\ rule' = matched
               /\ rpc' = "classified"
               /\ UNCHANGED <<calls, inflight>>
          ELSE /\ calls' = Append(calls, Call("model.invoke", "classifyQuery", <<>>))
               /\ inflight' = inflight + 1
               /\ rpc' = "classifier.invoke"
               /\ UNCHANGED <<classification, rule>>
    /\ UNCHANGED <<question, replies, rejection, answer, toolkit, failures, cont>>
    /\ UNCHANGED pipelineVars

(* the model.invoke of line 87 settles; a rejection leaves classifyQuery *)
ClassifierInvokeSettled(o) ==
    /\ rpc = "classifier.invoke"
    /\ inflight' = inflight - 1
    /\ IF o.ok
       THEN /\ replies' = Append(replies, o.content)
            /\ classification' = ParseClassifierResponse(o.content)
            /\ rule' = "oracle"
            /\ rpc' = "classified"
            /\ UNCHANGED <<rejection, failures>>
       ELSE /\ rejection' = <<OracleErrorMessage>>
            /\ failures' = Append(failures, OracleErrorMessage)
            /\ rpc' = "rejected"
            /\ UNCHANGED <<classification, rule, replies>>
    /\ UNCHANGED <<question, calls, answer, toolkit, cont>>
    /\ UNCHANGED pipelineVars

NextHybridClassify ==
    \/ \E q \in HybridQuestions : HybridAsk(q)
    \/ HybridKeywordRules
    \/ \E o \in ClassifierOutcomes : ClassifierInvokeSettled(o)

InitHybridClassify == InitPipeline(<<"off", "off">>) /\ InitClassifier

SpecHybridClassify == InitHybridClassify /\ [][NextHybridClassify]_vars

MetricKeywords == {KwCurrent, KwTemperature, KwVoltage, KwMaximum, KwAverage}
DeviceKeywords == {KwDevice, KwDevices}
Classifying == rpc \in {"idle", "classifyQuery", "classifier.invoke"}

(* C12: in the hybrid classifier every question with a metric keyword        *)
(* (current, temperature, voltage, maximum, average) is classified complex,  *)
(* also when "device" appears; the metric test decides it, before the device *)
(* test is reached, and the oracle is not consulted.                         *)
C12_MetricIsComplex ==
    (~Classifying /\ ContainsAny(question, MetricKeywords)) =>
        /\ classification.type = "complex"
        /\ rule = "metric"
        /\ calls = <<>>

C12_Witness ==
    /\ question = HfMaximum \o HfDevice
    /\ ContainsAny(question, MetricKeywords) /\ ContainsAny(question, DeviceKeywords)
    /\ rpc = "classified"
    /\ classification.type = "complex"

Kinds == {"tool_specific", "simple", "complex"}

(* C13: classifyQuery never fails and is total: for every question and every *)
(* behaviour of the oracle, a failed oracle call included, it returns one of *)
(* tool_specific, simple, complex.                                           *)
C13_ClassifyTotal ==
    ~Classifying => (rejection = <<>> /\ classification.type \in Kinds)

HybridKeywords ==
    {KwMaximum, KwMax, KwAverage, KwAvg, KwRange, KwPerformance, KwCurrent,
     KwTemperature, KwVoltage, KwTable, KwSchema, KwStructure, KwColumn,
     KwDevice, KwSql, KwQuery, KwSelect, KwCompare, KwAnalyze, KwRelationship,
     KwBetween, KwAnd, KwThen}

HasPrefix(text, prefix) ==
    Len(prefix) <= Len(text) /\ SubSeq(text, 1, Len(prefix)) = prefix

(* the name that follows the prefix: the longest part without a colon *)
RECURSIVE Name(_)
Name(text) ==
    IF text = <<>> \/ Head(text) = ":" THEN <<>> ELSE <<Head(text)>> \o Name(Tail(text))
ActionNamed(reply) == Name(SubSeq(reply, Len(KwSimplePrefix) + 1, Len(reply)))

(* C14: the oracle is consulted only when no keyword rule matched; its reply *)
(* (trimmed, lower-cased) gives simple with the action named after "simple:" *)
(* exactly when it starts with "simple:", complex for every other reply, and *)
(* no reply makes classification fail.                                       *)
C14_OracleFallback ==
    /\ calls # <<>> => ~ContainsAny(question, HybridKeywords)
    /\ replies # <<>> =>
          LET reply == ToLowerCase(Trim(replies[1]))
          IN /\ rpc = "classified"
             /\ rejection = <<>>
             /\ IF HasPrefix(reply, KwSimplePrefix)
                THEN classification = Classified("simple", "none", Some(ActionNamed(reply)))
                ELSE classification = Classified("complex", "none", Missing)

C14_Witness ==
    /\ rule = "oracle"
    /\ replies = <<RpLatestDataPadded>>
    /\ classification.type = "simple"
    /\ classification.action = <<ToLowerCase(<<"L", "a", "t", "e", "s", "t", "_", "D", "a", "t", "a">>)>>

----------------------------------------------------------------------------
(* The router of the keyword agent: getConversationalResponse and its three *)
(* handlers.  A content is the sequence of the pieces of its template.      *)

MaxRouterFragments == 2

RfShow == <<"S", "h", "o", "w">>
RfSchema == <<" ", "s", "c", "h", "e", "m", "a">>
RfStructure == <<" ", "S", "T", "R", "U", "C", "T", "U", "R", "E">>
RfOf == <<" ", "o", "f">>
RfUsers == <<" ", "u", "s", "e", "r", "s">>
RfQuoted == <<" ", "'", "D", "e", "v", "i", "c", "e", "'">>
RfColumns == <<" ", "c", "o", "l", "u", "m", "n", "s">>
RfMark == <<"?">>
RfTables == <<" ", "t", "a", "b", "l", "e", "s">>
RfFindData == <<" ", "f", "i", "n", "d", " ", "d", "a", "t", "a">>
RfHowMany == <<" ", "h", "o", "w", " ", "m", "a", "n", "y">>
RfHello == <<" ", "h", "e", "l", "l", "o">>
RouterFragments ==
    {RfShow, RfSchema, RfStructure, RfOf, RfUsers, RfQuoted, RfColumns, RfMark,
     RfTables, RfFindData, RfHowMany, RfHello}

RECURSIVE RouterJoined(_)
RouterJoined(n) ==
    IF n = 0 THEN {<<>>}
    ELSE LET shorter == RouterJoined(n - 1)
         IN shorter \cup {q \o f : q \in shorter, f \in RouterFragments}

RouterQuestions == RouterJoined(MaxRouterFragments) \ {<<>>}

(* a store call resolves with rows, resolves with none, or rejects *)
StoreOutcomes == {"rows", "empty", "error"}
(* langchainTool resolves with the agent's text, resolves with the error its *)
(* catch block wrapped, or rejects (datasource.destroy() of its finally)     *)
LangchainOutcomes == {"content", "caught", "rejected"}

(* /(?:table|schema|structure)\s+(?:of\s+)?['"]?(\w+)['"]?/i *)
Digits == {"0", "1", "2", "3", "4", "5", "6", "7", "8", "9"}
IsWordChar(c) ==
    \/ \E i \in 1..Len(UpperCase) : UpperCase[i] = c \/ LowerCase[i] = c
    \/ c \in Digits
    \/ c = "_"
IsQuote(c) == c \in {"'", "\""}
RECURSIVE SkipSpaces(_, _)
SkipSpaces(text, j) ==
    IF j <= Len(text) /\ IsSpace(text[j]) THEN SkipSpaces(text, j + 1) ELSE j
RECURSIVE WordEnd(_, _)
WordEnd(text, j) ==
    IF j <= Len(text) /\ IsWordChar(text[j]) THEN WordEnd(text, j + 1) ELSE j
Word(text, j) == SubSeq(text, j, WordEnd(text, j) - 1)
(* ['"]?(\w+) tried at j: the captured word, empty when it does not match *)
QuotedWord(text, j) ==
    IF j <= Len(text) /\ IsQuote(text[j]) /\ Word(text, j + 1) # <<>>
    THEN Word(text, j + 1)
    ELSE Word(text, j)
KeywordAt(text, i, kw) ==
    /\ i + Len(kw) - 1 <= Len(text)
    /\ ToLowerCase(SubSeq(text, i, i + Len(kw) - 1)) = kw
(* \s+(?:of\s+)?['"]?(\w+) tried at a: the "of" branch first, then without *)
CaptureAfter(text, a) ==
    LET j == SkipSpaces(text, a)
        k == SkipSpaces(text, j + 2)
        afterOf == IF KeywordAt(text, j, <<"o", "f">>) /\ k > j + 2
                   THEN QuotedWord(text, k)
                   ELSE <<>>
    IN IF j = a THEN <<>>
       ELSE IF afterOf # <<>> THEN afterOf
       ELSE QuotedWord(text, j)
MatchAt(text, i) ==
    IF KeywordAt(text, i, KwTable) THEN CaptureAfter(text, i + Len(KwTable))
    ELSE IF KeywordAt(text, i, KwSchema) THEN CaptureAfter(text, i + Len(KwSchema))
    ELSE IF KeywordAt(text, i, KwStructure) THEN CaptureAfter(text, i + Len(KwStructure))
    ELSE <<>>
(* input.match(...): absent, or tableMatch[1] of the leftmost match *)
TableMatch(input) ==
    IF \E i \in 1..Len(input) : MatchAt(input, i) # <<>>
    THEN Some(MatchAt(input, CHOOSE i \in 1..Len(input) :
                  /\ MatchAt(input, i) # <<>>
                  /\ \A h \in 1..(i - 1) : MatchAt(input, h) = <<>>))
    ELSE Missing

Cont(ok, empty, err, wrap) == [ok |-> ok, empty |-> empty, err |-> err, wrap |-> wrap]

(* return content *)
Return(content) ==
    /\ answer' = <<[content |-> content]>>
    /\ rpc' = "done"
    /\ UNCHANGED <<calls, inflight, cont>>

(* await of a store call whose result the awaiting tool formats and returns *)
AwaitStore(op, by, arg, k) ==
    /\ calls' = Append(calls, Call(op, by, arg))
    /\ inflight' = inflight + 1
    /\ cont' = k
    /\ rpc' = "store"
    /\ UNCHANGED answer

(* await langchainTool(input) *)
AwaitLangchainTool(by, k) ==
    /\ calls' = Append(calls, Call("langchainTool", by, <<>>))
    /\ inflight' = inflight + 1
    /\ cont' = k
    /\ rpc' = "langchainTool"
    /\ UNCHANGED answer

listDatabaseTables ==
    AwaitStore("showAllTables", "listDatabaseTables", <<>>,
               Cont(<<"The database contains the following tables: ">>,
                    <<"No tables found in the database.">>,
                    <<"Error listing tables: ">>, <<>>))

getTableSchema(tableName) ==
    AwaitStore("describeTable", "getTableSchema", tableName,
               Cont(<<"Schema for table ">>, <<"Schema for table ">>,
                    <<"Error getting schema for table ">>, <<>>))

ClarificationMessage ==
    "Please specify a table name. Example: 'Show me the schema of users table'"

(* handleToolSpecificQuery asking for the schema whether or not a name matched *)
handleToolSpecificQueryUnchecked(input, tool) ==
    IF tool = "listTables" THEN listDatabaseTables
    ELSE IF tool = "getSchema"
    THEN LET tableMatch == TableMatch(input)
         IN getTableSchema(IF tableMatch # Missing THEN tableMatch[1] ELSE <<>>)
    ELSE IF tool = "langchain"
    THEN AwaitLangchainTool("handleToolSpecificQuery",
                            Cont(<<>>, <<>>, <<"Error executing langchain: ">>, <<>>))
    ELSE Return(<<"Unknown tool requested">>)

(* handleToolSpecificQuery up to its first await or return *)
handleToolSpecificQuery(input, tool) ==
    IF tool = "listTables" THEN listDatabaseTables
    ELSE IF tool = "getSchema"
    THEN LET tableMatch == TableMatch(input)
         IN IF tableMatch # Missing
            THEN getTableSchema(tableMatch[1])
            ELSE Return(<<ClarificationMessage>>)
    ELSE IF tool = "langchain"
    THEN AwaitLangchainTool("handleToolSpecificQuery",
                            Cont(<<>>, <<>>, <<"Error executing langchain: ">>, <<>>))
    ELSE Return(<<"Unknown tool requested">>)

(* the quick actions of SmartWeldCustomQueryTool and the store read of each *)
ActLatestData == <<"l", "a", "t", "e", "s", "t", "_", "d", "a", "t", "a">>
ActActiveDevices == <<"a", "c", "t", "i", "v", "e", "_", "d", "e", "v", "i", "c", "e", "s">>
ActHighTemperature ==
    <<"h", "i", "g", "h", "_", "t", "e", "m", "p", "e", "r", "a", "t", "u", "r", "e">>
ActExceededCurrent ==
    <<"e", "x", "c", "e", "e", "d", "e", "d", "_", "c", "u", "r", "r", "e", "n", "t">>
QuickQueryHelp ==
    "Available quick queries: count_records, latest_data, active_devices, high_temperature, exceeded_current"
QuickToolMissing == "Error: Quick query tool not available"

(* SmartWeldCustomQueryTool._call counting the records for any other input *)
QuickQueryCallDefaultCount(input, wrap) ==
    LET query == Trim(ToLowerCase(input))
        quick(op, ok) ==
            AwaitStore(op, "smartweld_quick_query", query,
                       Cont(<<ok>>, <<ok, "no rows">>, <<"Error executing quick query: ">>, wrap))
    IN IF query = ActLatestData
       THEN quick("DeviceTelemetry.findAll", "Latest 5 telemetry records:")
       ELSE IF query = ActActiveDevices
       THEN quick("Device.findAll", "Active devices in the system:")
       ELSE IF query = ActHighTemperature
       THEN quick("DeviceTelemetry.findAll", "High temperature records (>70 C):")
       ELSE IF query = ActExceededCurrent
       THEN quick("DeviceTelemetry.findAll", "Current exceeded records:")
       ELSE quick("DeviceTelemetry.count", "Total telemetry records in the database: ")

(* SmartWeldCustomQueryTool._call(input) up to its await or return *)
QuickQueryCall(input, wrap) ==
    LET query == Trim(ToLowerCase(input))
        quick(op, ok) ==
            AwaitStore(op, "smartweld_quick_query", query,
                       Cont(<<ok>>, <<ok, "no rows">>, <<"Error executing quick query: ">>, wrap))
    IN IF query = ActCountRecords
       THEN quick("DeviceTelemetry.count", "Total telemetry records in the database: ")
       ELSE IF query = ActLatestData
       THEN quick("DeviceTelemetry.findAll", "Latest 5 telemetry records:")
       ELSE IF query = ActActiveDevices
       THEN quick("Device.findAll", "Active devices in the system:")
       ELSE IF query = ActHighTemperature
       THEN quick("DeviceTelemetry.findAll", "High temperature records (>70 C):")
       ELSE IF query = ActExceededCurrent
       THEN quick("DeviceTelemetry.findAll", "Current exceeded records:")
       ELSE Return(wrap \o <<QuickQueryHelp>>)

(* the tools of the registry, by name *)
ToolNames ==
    IF toolkit = ToolkitAdvanced
    THEN {"smartweld_quick_query", "smartweld_sql_query", "smartweld_database_info"}
    ELSE {"smartweld_sql_query", "smartweld_schema_info", "smartweld_list_tables"}

(* handleSimpleQuery up to its first await or return *)
handleSimpleQuery(action) ==
    IF "smartweld_quick_query" \in ToolNames
    THEN QuickQueryCall(action, <<>>)
    ELSE Return(<<QuickToolMissing>>)

(* handleComplexQuery of the keyword agent up to its await *)
handleComplexQuery ==
    AwaitLangchainTool("handleComplexQuery",
                       Cont(<<>>, <<>>, <<"Error processing complex query: ">>, <<>>))

(* an action that is a non-empty text *)
Truthy(action) == action # Missing /\ action # Some(<<>>)

(* lines 125-140: the handler chosen by the classification starts *)
Route ==
    /\ rpc = "idle"
    /\ classification.type # "none"
    /\ IF classification.type = "tool_specific" /\ classification.tool # "none"
       THEN handleToolSpecificQuery(question, classification.tool)
       ELSE IF classification.type = "simple" /\ Truthy(classification.action)
       THEN handleSimpleQuery(classification.action[1])
       ELSE handleComplexQuery
    /\ UNCHANGED <<question, classification, rule, replies, rejection, toolkit, failures>>
    /\ UNCHANGED pipelineVars

(* the awaited store call settles: the tool formats the rows, or its catch   *)
(* block the error, and the handler returns that text                        *)
StoreSettled(o) ==
    /\ rpc = "store"
    /\ inflight' = inflight - 1
    /\ LET result == IF o = "rows" THEN cont.ok \o <<"rows">>
                     ELSE IF o = "empty" THEN cont.empty
                     ELSE cont.err \o <<StoreErrorMessage>>
       IN answer' = <<[content |-> cont.wrap \o result]>>
    /\ failures' = IF o = "error" THEN Append(failures, StoreErrorMessage) ELSE failures
    /\ rpc' = "done"
    /\ cont' = NoCont
    /\ UNCHANGED <<question, classification, calls, rule, replies, rejection, toolkit>>
    /\ UNCHANGED pipelineVars

(* langchainTool settles; a rejection goes to the catch block of the handler *)
LangchainToolSettled(o) ==
    /\ rpc = "langchainTool"
    /\ inflight' = inflight - 1
    /\ LET result == IF o = "content" THEN <<"final text of the SQL agent">>
                     ELSE IF o = "caught" THEN <<"Error: ", ToolErrorMessage>>
                     ELSE cont.err \o <<ToolErrorMessage>>
       IN answer' = <<[content |-> result]>>
    /\ failures' = IF o = "content" THEN failures ELSE Append(failures, ToolErrorMessage)
    /\ rpc' = "done"
    /\ cont' = NoCont
    /\ UNCHANGED <<question, classification, calls, rule, replies, rejection, toolkit>>
    /\ UNCHANGED pipelineVars

NextRouter ==
    \/ \E q \in RouterQuestions : Ask(q)
    \/ Classify
    \/ Route
    \/ \E o \in StoreOutcomes : StoreSettled(o)
    \/ \E o \in LangchainOutcomes : LangchainToolSettled(o)

InitRouter == InitPipeline(<<"off", "off">>) /\ InitAgent(Toolkits)

SpecRouter == InitRouter /\ [][NextRouter]_vars

(* no table|schema|structure that is followed by white space and a word *)
NoTableName(text) ==
    ~\E kw \in {KwTable, KwSchema, KwStructure} : \E i \in 1..Len(text) : \E j \in 1..Len(text) :
        /\ i + Len(kw) < j
        /\ ToLowerCase(SubSeq(text, i, i + Len(kw) - 1)) = kw
        /\ \A h \in (i + Len(kw))..(j - 1) : text[h] \in {" ", "\n", "\t", "\r"}
        /\ \/ IsWordChar(text[j])
           \/ text[j] \in {"'", "\""} /\ j < Len(text) /\ IsWordChar(text[j + 1])

(* C15: for a question classified tool_specific / getSchema in which the     *)
(* pattern (table|schema|structure) (of)? <word> finds no table name, the    *)
(* router returns the clarification message and calls neither the schema     *)
(* tool nor the store.                                                       *)
C15_ClarificationWithoutCall ==
    (classification.tool = "getSchema" /\ NoTableName(question)) =>
        /\ calls = <<>>
        /\ rpc = "done" => answer = <<[content |-> <<ClarificationMessage>>]>>

C15_Witness ==
    /\ question = RfSchema \o RfMark
    /\ classification.tool = "getSchema"
    /\ NoTableName(question)
    /\ rpc = "done"
    /\ answer # <<>>

----------------------------------------------------------------------------
(* The SQL tool smartweld_sql_query, called with a statement.               *)

MaxSqlFragments == 2

SfSpace == <<" ">>
SfNewline == <<"\n">>
SfSelectOne == <<"S", "E", "L", "E", "C", "T", " ", "1">>
SfSelectLower == <<"s", "e", "l", "e", "c", "t", " ", "*">>
SfDropTable == <<"D", "R", "O", "P", " ", "T", "A", "B", "L", "E", " ", "x">>
SfSemicolon == <<";">>
SfDelete == <<"d", "e", "l", "e", "t", "e">>
SqlFragments ==
    {SfSpace, SfNewline, SfSelectOne, SfSelectLower, SfDropTable, SfSemicolon, SfDelete}

RECURSIVE SqlJoined(_)
SqlJoined(n) ==
    IF n = 0 THEN {<<>>}
    ELSE LET shorter == SqlJoined(n - 1)
         IN shorter \cup {q \o f : q \in shorter, f \in SqlFragments}

Statements == SqlJoined(MaxSqlFragments)

OnlySelectMessage == "Error: Only SELECT queries are allowed for security reasons."

(* SmartWeldSQLTool._call(input) of the registry, up to its await or return: *)
(* part_008 tests the statement, services/sql-toolkit.ts sends it as it is   *)
SqlQueryCall(input, wrap) ==
    IF toolkit = ToolkitAdvanced
    THEN LET trimmedQuery == Trim(input)
         IN IF ~StartsWith(ToLowerCase(trimmedQuery), KwSelect)
            THEN Return(wrap \o <<OnlySelectMessage>>)
            ELSE AwaitStore("sequelize.query", "smartweld_sql_query", trimmedQuery,
                            Cont(<<"Query executed successfully. Results:">>,
                                 <<"Query executed successfully. Results:", "no rows">>,
                                 <<"SQL Error: ">>, wrap))
    ELSE AwaitStore("sequelize.query", "smartweld_sql_query", input,
                    Cont(<<>>, <<"no rows">>, <<"Error executing query: ">>, wrap))

(* the tool is called with a statement *)
SqlToolCall(statement) ==
    /\ rpc = "idle"
    /\ question = <<>>
    /\ calls = <<>>
    /\ question' = statement
    /\ SqlQueryCall(statement, <<>>)
    /\ UNCHANGED <<classification, rule, replies, rejection, toolkit, failures>>
    /\ UNCHANGED pipelineVars

NextSqlTool ==
    \/ \E statement \in Statements : SqlToolCall(statement)
    \/ \E o \in StoreOutcomes : StoreSettled(o)

InitSqlTool == InitPipeline(<<"off", "off">>) /\ InitAgent(Toolkits)

SpecSqlTool == InitSqlTool /\ [][NextSqlTool]_vars

BeginsWithSelect(text) == HasPrefix(ToLowerCase(Trim(text)), KwSelect)

(* C16: the SQL tool never sends to the store a statement whose trimmed text *)
(* does not begin with SELECT, in any case of letters: for such a statement  *)
(* it returns the text saying that only SELECT queries are allowed and the   *)
(* store's query operation is not called.                                    *)
C16_OnlySelectReachesStore ==
    /\ \A i \in 1..Len(calls) :
          calls[i].op = "sequelize.query" => BeginsWithSelect(calls[i].arg)
    /\ (rpc = "done" /\ ~BeginsWithSelect(question)) =>
          answer = <<[content |-> <<OnlySelectMessage>>]>>

----------------------------------------------------------------------------
(* The router of the hybrid agent: the simple handler and the multi-step    *)
(* strategy of handleComplexQuery.                                          *)

KwTables == <<"t", "a", "b", "l", "e", "s">>
KwNumberOfTables ==
    <<"n", "u", "m", "b", "e", "r", " ", "o", "f", " ", "t", "a", "b", "l", "e", "s">>
KwCountOfTables == <<"c", "o", "u", "n", "t", " ", "o", "f", " ", "t", "a", "b", "l", "e", "s">>
KwRecent == <<"r", "e", "c", "e", "n", "t">>
SqlCountAll ==
    <<"S", "E", "L", "E", "C", "T", " ", "C", "O", "U", "N", "T", "(", "*", ")", " ", "a", "s", " ", "t", "o", "t", "a", "l", " ", "F", "R", "O", "M", " ", "D", "e", "v", "i", "c", "e", "T", "e", "l", "e", "m", "e", "t", "r", "i", "e", "s">>
SqlLatestFive ==
    <<"S", "E", "L", "E", "C", "T", " ", "*", " ", "F", "R", "O", "M", " ", "D", "e", "v", "i", "c", "e", "T", "e", "l", "e", "m", "e", "t", "r", "i", "e", "s", " ", "O", "R", "D", "E", "R", " ", "B", "Y", " ", "t", "i", "m", "e", "s", "t", "a", "m", "p", " ", "D", "E", "S", "C", " ", "L", "I", "M", "I", "T", " ", "5">>
SqlTableNames ==
    <<"S", "E", "L", "E", "C", "T", " ", "n", "a", "m", "e", " ", "F", "R", "O", "M", " ", "s", "q", "l", "i", "t", "e", "_", "m", "a", "s", "t", "e", "r", " ", "W", "H", "E", "R", "E", " ", "t", "y", "p", "e", "=", "'", "t", "a", "b", "l", "e", "'">>

(* what the oracle answers to the reasoning prompt and to the follow-up *)
RrSchema == <<"c", "h", "e", "c", "k", " ", "t", "h", "e", " ", "s", "c", "h", "e", "m", "a">>
RrCount == <<"c", "o", "u", "n", "t", " ", "t", "h", "e", " ", "r", "o", "w", "s">>
RrPlain == <<"u", "s", "e", " ", "a", " ", "t", "o", "o", "l">>
RrTablesHowMany ==
    <<"T", "a", "b", "l", "e", "s", ",", " ", "t", "h", "e", "n", " ", "h", "o", "w", " ", "m", "a", "n", "y">>
FuSelect ==
    <<"U", "s", "e", " ", "s", "q", "l", ":", " ", "S", "E", "L", "E", "C", "T", " ", "1", ";", " ", "d", "o", "n", "e">>
FuNoSemicolon ==
    <<"r", "u", "n", " ", "q", "u", "e", "r", "y", " ", "s", "e", "l", "e", "c", "t", " ", "1">>
FuPlain == <<"n", "o", " ", "i", "d", "e", "a">>
FuSelectNextLine == <<"s", "q", "l", " ", "s", "e", "l", "e", "c", "t", "\n", "1", ";">>
ComplexReplies ==
    {RrSchema, RrCount, RrPlain, RrTablesHowMany,
     FuSelect, FuNoSemicolon, FuPlain, FuSelectNextLine}
ComplexOutcomes == {InvokeReturned(c) : c \in ComplexReplies} \cup {InvokeFailed}

(* followUp.match(/SELECT.*?;/i): absent, or the text from the leftmost     *)
(* "select" to the first semicolon of its line                               *)
SelectEndsAt(text, i, j) ==
    /\ KeywordAt(text, i, KwSelect)
    /\ i + Len(KwSelect) <= j
    /\ text[j] = ";"
    /\ \A h \in (i + Len(KwSelect))..(j - 1) : text[h] # ";" /\ text[h] # "\n"
SqlMatch(text) ==
    IF \E i, j \in 1..Len(text) : SelectEndsAt(text, i, j)
    THEN LET i == CHOOSE a \in 1..Len(text) :
                      /\ \E j \in 1..Len(text) : SelectEndsAt(text, a, j)
                      /\ \A b \in 1..(a - 1) : \A j \in 1..Len(text) : ~SelectEndsAt(text, b, j)
             j == CHOOSE e \in 1..Len(text) : SelectEndsAt(text, i, e)
         IN Some(SubSeq(text, i, j))
    ELSE Missing

GuidanceMessage == "I understand you're asking ... Please try rephrasing your question to be more specific"

(* await model.invoke(...) of handleComplexQuery *)
AwaitOracle(step) ==
    /\ calls' = Append(calls, Call("model.invoke", "handleComplexQuery", <<>>))
    /\ inflight' = inflight + 1
    /\ rpc' = step
    /\ UNCHANGED <<answer, cont>>

(* SmartWeldDatabaseInfoTool._call('tables') up to its await *)
DatabaseInfoTables(wrap) ==
    AwaitStore("sequelize.query", "smartweld_database_info", SqlTableNames,
               Cont(<<"Available tables:">>, <<"Available tables:", "no rows">>,
                    <<"Error getting database info: ">>, wrap))

(* lines 288-310: the quick count when the reasoning speaks of counting,    *)
(* else the guidance text                                                    *)
ComplexFallback(reasoning) ==
    LET lower == ToLowerCase(reasoning)
    IN IF (Includes(lower, KwCount) \/ Includes(lower, KwHowMany))
          /\ "smartweld_quick_query" \in ToolNames
       THEN QuickQueryCall(ActCountRecords, <<"Based on your question about counting records:">>)
       ELSE Return(<<GuidanceMessage>>)

(* handleComplexQuery of the hybrid agent, lines 112-247, up to its first    *)
(* await or return.  No registry of the repository has a tool named          *)
(* smartweld_telemetry_analysis or smartweld_device_info, so the bodies of   *)
(* lines 157-190 and 202-221 are never entered.                              *)
HybridComplexBegin(input) ==
    LET lowerInput == ToLowerCase(input)
        has(kw) == Includes(lowerInput, kw)
    IN IF (has(KwSchema) \/ has(KwTables) \/ has(KwStructure) \/ has(KwColumns))
          /\ "smartweld_database_info" \in ToolNames
       THEN IF has(KwHowManyTables) \/ has(KwNumberOfTables) \/ has(KwCountOfTables)
            THEN DatabaseInfoTables(<<"Here are the tables in the SmartWeld database:">>)
            ELSE Return(<<"Here's the SmartWeld database schema:", "Database Schema:">>)
       ELSE IF (has(KwSql) \/ has(KwQuery) \/ has(KwSelect))
          /\ "smartweld_sql_query" \in ToolNames /\ has(KwCount)
       THEN SqlQueryCall(SqlCountAll, <<"Here's the count of telemetry records:">>)
       ELSE IF (has(KwSql) \/ has(KwQuery) \/ has(KwSelect))
          /\ "smartweld_sql_query" \in ToolNames /\ (has(KwLatest) \/ has(KwRecent))
       THEN SqlQueryCall(SqlLatestFive, <<"Here are the latest telemetry records:">>)
       ELSE AwaitOracle("reasoning.invoke")

(* handleSimpleQuery of the hybrid agent, lines 99-109 *)
HybridSimpleBegin(action) ==
    IF "smartweld_quick_query" \in ToolNames
    THEN QuickQueryCall(action, <<>>)
    ELSE Return(<<QuickToolMissing>>)

(* lines 326-336: the handler chosen by the classification starts *)
HybridRoute ==
    /\ rpc = "classified"
    /\ IF classification.type = "simple" /\ Truthy(classification.action)
       THEN HybridSimpleBegin(classification.action[1])
       ELSE HybridComplexBegin(question)
    /\ UNCHANGED <<question, classification, rule, replies, rejection, toolkit, failures>>
    /\ UNCHANGED pipelineVars

(* a model.invoke of handleComplexQuery settles; on a rejection the catch    *)
(* block of lines 312-315 rethrows                                           *)
ComplexInvokeSettled(o) ==
    /\ rpc \in {"reasoning.invoke", "followUp.invoke"}
    /\ inflight' = inflight - 1
    /\ IF o.ok
       THEN /\ replies' = Append(replies, o.content)
            /\ rpc' = IF rpc = "reasoning.invoke" THEN "reasoning" ELSE "followUp"
            /\ UNCHANGED <<rejection, failures>>
       ELSE /\ rejection' = <<OracleErrorMessage>>
            /\ failures' = Append(failures, OracleErrorMessage)
            /\ rpc' = "rejected"
            /\ UNCHANGED replies
    /\ UNCHANGED <<question, classification, calls, rule, answer, toolkit, cont>>
    /\ UNCHANGED pipelineVars

AsksForSchema(reasoning) ==
    /\ Includes(ToLowerCase(reasoning), KwSchema) \/ Includes(ToLowerCase(reasoning), KwTables)
    /\ "smartweld_database_info" \in ToolNames

(* lines 251-269 with the follow-up and the quick count issued together *)
ReasoningResumedTogether ==
    /\ rpc = "reasoning"
    /\ LET reasoning == replies[Len(replies)]
       IN IF AsksForSchema(reasoning)
          THEN /\ calls' = calls \o <<Call("model.invoke", "handleComplexQuery", <<>>),
                                      Call("DeviceTelemetry.count", "smartweld_quick_query",
                                           ActCountRecords)>>
               /\ inflight' = inflight + 2
               /\ rpc' = "followUp.invoke"
               /\ UNCHANGED <<answer, cont>>
          ELSE ComplexFallback(reasoning)
    /\ UNCHANGED <<question, classification, rule, replies, rejection, toolkit, failures>>
    /\ UNCHANGED pipelineVars

(* lines 248-269: with the reasoning, ask the follow-up or fall back *)
ReasoningResumed ==
    /\ rpc = "reasoning"
    /\ LET reasoning == replies[Len(replies)]
       IN IF AsksForSchema(reasoning)
          THEN AwaitOracle("followUp.invoke")
          ELSE ComplexFallback(reasoning)
    /\ UNCHANGED <<question, classification, rule, replies, rejection, toolkit, failures>>
    /\ UNCHANGED pipelineVars

(* lines 270-310: run the statement found in the follow-up or fall back *)
FollowUpResumed ==
    /\ rpc = "followUp"
    /\ LET followUp == replies[Len(replies)]
           reasoning == replies[Len(replies) - 1]
           sqlMatch == SqlMatch(followUp)
       IN IF (Includes(ToLowerCase(followUp), KwSql) \/ Includes(ToLowerCase(followUp), KwQuery))
             /\ "smartweld_sql_query" \in ToolNames
             /\ sqlMatch # Missing
          THEN SqlQueryCall(sqlMatch[1],
                   <<"Based on the database schema and your question, here's the result:">>)
          ELSE ComplexFallback(reasoning)
    /\ UNCHANGED <<question, classification, rule, replies, rejection, toolkit, failures>>
    /\ UNCHANGED pipelineVars

(* the catch block of getConversationalResponse throwing again *)
HybridCatchRethrows ==
    /\ rpc = "rejected"
    /\ rpc' = "thrown"
    /\ UNCHANGED <<question, classification, calls, rule, replies, rejection, answer>>
    /\ UNCHANGED <<toolkit, inflight, failures, cont>>
    /\ UNCHANGED pipelineVars

(* lines 338-345: the catch block of getConversationalResponse *)
HybridCatch ==
    /\ rpc = "rejected"
    /\ answer' = <<[content |-> <<"I encountered an error while processing your request: ",
                                 rejection[1],
                                 ". Please try rephrasing your question.">>]>>
    /\ rejection' = <<>>
    /\ rpc' = "done"
    /\ UNCHANGED <<question, classification, calls, rule, replies>>
    /\ UNCHANGED <<toolkit, inflight, failures, cont>>
    /\ UNCHANGED pipelineVars

(* the questions routed: one or more for each branch of the two handlers *)
HybridRouterQuestions ==
    {HfHowMany, HfLatest, HfHowMany \o HfTables, HfTables, HfSelect \o HfCount,
     HfSelect \o HfLatest, HfSelect, HfMaximum \o HfDevice, HfDevice, HfThen,
     HfCount \o HfLatest, HfTemperature \o HfTables}

NextHybrid ==
    \/ \E q \in HybridRouterQuestions : HybridAsk(q)
    \/ HybridKeywordRules
    \/ \E o \in ClassifierOutcomes : ClassifierInvokeSettled(o)
    \/ HybridRoute
    \/ \E o \in ComplexOutcomes : ComplexInvokeSettled(o)
    \/ ReasoningResumed
    \/ FollowUpResumed
    \/ \E o \in StoreOutcomes : StoreSettled(o)
    \/ HybridCatch

InitHybrid == InitPipeline(<<"off", "off">>) /\ InitAgent(Toolkits)

SpecHybrid == InitHybrid /\ [][NextHybrid]_vars

(* either agent answers one question *)
NextAgents == NextRouter \/ NextHybrid

InitAgents == InitPipeline(<<"off", "off">>) /\ InitAgent(Toolkits)

SpecAgents == InitAgents /\ [][NextAgents]_vars

ErrorMessages == {StoreErrorMessage, OracleErrorMessage, ToolErrorMessage}

(* C17: the router never propagates a failure: whatever the question and     *)
(* whichever call of a tool, the store or the oracle fails, on each of the   *)
(* three paths, getConversationalResponse does not throw and returns one     *)
(* response object whose content carries the error message.                  *)
C17_FailureBecomesResponse ==
    /\ rpc # "thrown"
    /\ rpc = "done" =>
          /\ Len(answer) = 1
          /\ answer[1].content # <<>>
          /\ rejection = <<>>
          /\ failures # <<>> =>
                \E i \in 1..Len(answer[1].content) :
                    answer[1].content[i] = failures[Len(failures)]

C17_Witness ==
    /\ rpc = "done"
    /\ failures = <<OracleErrorMessage>>
    /\ calls[Len(calls)].by = "handleComplexQuery"
    /\ Len(answer) = 1
    /\ \E i \in 1..Len(answer[1].content) : answer[1].content[i] = OracleErrorMessage

QuickActions ==
    {ActCountRecords, ActLatestData, ActActiveDevices, ActHighTemperature, ActExceededCurrent}
StoreOps ==
    {"showAllTables", "describeTable", "sequelize.query", "DeviceTelemetry.count",
     "DeviceTelemetry.findAll", "Device.findAll"}
(* the registry has the quick tool and the tool knows the action *)
Recognised(action) ==
    /\ toolkit = ToolkitAdvanced
    /\ \E known \in QuickActions : Trim(ToLowerCase(action)) = known
OnSimplePath ==
    /\ classification.type = "simple"
    /\ classification.action \notin {Missing, Some(<<>>)}
    /\ rpc \in {"store", "done"}

ComplexOracleCalls ==
    {i \in 1..Len(calls) : calls[i].op = "model.invoke" /\ calls[i].by = "handleComplexQuery"}

(* C19: within one request the router issues its tool, store and oracle      *)
(* calls one after another, never two in flight at once, and the complex     *)
(* strategy makes at most two oracle calls: the reasoning and at most one    *)
(* follow-up.                                                                *)
C19_SequentialAtMostTwo ==
    /\ inflight <= 1
    /\ Cardinality(ComplexOracleCalls) <= 2

C19_Witness ==
    /\ rpc = "done"
    /\ Cardinality(ComplexOracleCalls) = 2
    /\ calls[Len(calls)].op = "sequelize.query"
    /\ inflight = 0

----------------------------------------------------------------------------
(* The JSON-oriented agent: getConversationalResponse returns the final     *)
(* message of the ReAct agent as a structured content.                      *)

(* The final message's text: a fence around it or none, and what is inside: *)
(* the object asked for, another object, another JSON value, text that is    *)
(* not JSON, or nothing at all.                                              *)
Fences == {"none", "json", "plain"}
Forms == {"structured", "object", "number", "array", "null", "text", "empty"}
StringContent(fence, form) == [type |-> "string", fence |-> fence, form |-> form]
PartsContent == [type |-> "parts", fence |-> "none", form |-> "array"]
NoContent == [type |-> "undefined", fence |-> "none", form |-> "empty"]
DefaultContent == [type |-> "string", fence |-> "none", form |-> "default"]
FinalContents ==
    {StringContent(f, m) : f \in Fences, m \in Forms} \cup {PartsContent, NoContent}

(* agent.invoke resolves with a final message or rejects *)
AgentOutcomes ==
    {[ok |-> TRUE, content |-> c] : c \in FinalContents}
    \cup {[ok |-> FALSE, content |-> NoContent]}

StructuredFields == {"summary", "data", "visualizations", "insights", "recommendations"}
JsonValue(shape, fields, summary) == [shape |-> shape, fields |-> fields, summary |-> summary]
TextOf(content) == <<content.fence, content.form>>

(* finalMessage?.content || "I couldn't generate a response." *)
ContentOrDefault(c) ==
    IF c.type = "undefined" \/ (c.type = "string" /\ c.fence = "none" /\ c.form = "empty")
    THEN DefaultContent
    ELSE c

(* content.replace(/```json\n?/g, '').replace(/```\n?$/g, '').trim(): the  *)
(* json fence goes, of a plain fence only the closing one                    *)
CleanUp(c) ==
    IF c.fence = "json" THEN [c EXCEPT !.fence = "none"]
    ELSE IF c.fence = "plain" THEN [c EXCEPT !.fence = "open"]
    ELSE c

(* JSON.parse(content) throws on text that is not JSON *)
ParseThrows(c) ==
    c.fence # "none" \/ c.form \notin {"structured", "object", "number", "array", "null"}

(* JSON.parse(content): the value the text denotes *)
Parse(c) ==
    IF c.form = "structured"
    THEN JsonValue("object", StructuredFields, <<"summary of the agent">>)
    ELSE IF c.form = "object" THEN JsonValue("object", {"answer"}, <<>>)
    ELSE JsonValue(c.form, {}, <<>>)

(* lines 198-208: the structured response made of a text that is not JSON *)
Wrapped(c) == JsonValue("object", StructuredFields, TextOf(c))

(* lines 184-209 *)
ParsedContent(final) ==
    LET content == IF ContentOrDefault(final).type = "string"
                   THEN CleanUp(ContentOrDefault(final))
                   ELSE ContentOrDefault(final)
    IN IF content.type # "string" THEN JsonValue("array", {}, <<>>)
       ELSE IF ParseThrows(content) THEN Wrapped(content)
       ELSE Parse(content)

(* lines 217-233: the catch block of getConversationalResponse *)
AgentErrorContent(message) == JsonValue("object", StructuredFields, <<"Error: ", message>>)

(* getConversationalResponse(input) is called: lines 160-179 *)
JsonAsk(q) ==
    /\ rpc = "idle"
    /\ question = <<>>
    /\ question' = q
    /\ calls' = Append(calls, Call("agent.invoke", "getConversationalResponse", <<>>))
    /\ inflight' = inflight + 1
    /\ rpc' = "agent.invoke"
    /\ UNCHANGED <<classification, rule, replies, rejection, answer, toolkit, failures, cont>>
    /\ UNCHANGED pipelineVars

(* agent.invoke settles: lines 181-215, or the catch block *)
AgentInvokeSettled(o) ==
    /\ rpc = "agent.invoke"
    /\ inflight' = inflight - 1
    /\ IF o.ok
       THEN /\ replies' = Append(replies, o.content)
            /\ answer' = <<[content |-> ParsedContent(o.content)]>>
            /\ UNCHANGED failures
       ELSE /\ failures' = Append(failures, OracleErrorMessage)
            /\ answer' = <<[content |-> AgentErrorContent(OracleErrorMessage)]>>
            /\ UNCHANGED replies
    /\ rpc' = "done"
    /\ UNCHANGED <<question, classification, calls, rule, rejection, toolkit, cont>>
    /\ UNCHANGED pipelineVars

NextJson ==
    \/ \E q \in HybridRouterQuestions : JsonAsk(q)
    \/ \E o \in AgentOutcomes : AgentInvokeSettled(o)

InitJson == InitPipeline(<<"off", "off">>) /\ InitAgent({ToolkitAdvanced})

SpecJson == InitJson /\ [][NextJson]_vars

(* C20: in the JSON-oriented agent every response has one shape: whatever    *)
(* the final message (a JSON object, JSON that is not an object, text that   *)
(* is not JSON, content that is not a string) and also when the agent fails, *)
(* the content returned is an object with the fields summary, data,          *)
(* visualizations, insights and recommendations; text that is not JSON is    *)
(* wrapped with the text as summary.                                         *)
C20_OneResponseShape ==
    rpc = "done" =>
        /\ Len(answer) = 1
        /\ answer[1].content.shape = "object"
        /\ StructuredFields \subseteq answer[1].content.fields
        /\ (replies # <<>> /\ replies[1].type = "string" /\ replies[1].form = "text") =>
              answer[1].content.summary[2] = "text"

----------------------------------------------------------------------------
(* analyzeHighCurrent on the text of the reply of the oracle (91-110).      *)
(* A text is the sequence of its characters; the replies carry no escape    *)
(* sequences.                                                               *)

(* a JavaScript string as a value of the model *)
RECURSIVE Str(_)
Str(text) == IF text = <<>> THEN "" ELSE Head(text) \o Str(Tail(text))

(* the grave accent has no string of its own in this language: ^ stands *)
(* for it in every text below                                           *)
Backtick == "^"
Ticks == <<Backtick, Backtick, Backtick>>
KwJson == <<"j", "s", "o", "n">>
KwNull == <<"n", "u", "l", "l">>

(* the position of the leftmost match of the pattern: three backticks,  *)
(* lang, a run of whitespace; 0 when there is none                      *)
FenceAt(text, lang) ==
    LET pattern == Ticks \o lang
        at == {p \in 1..(Len(text) - Len(pattern) + 1) :
                  \A j \in 1..Len(pattern) : text[p + j - 1] = pattern[j]}
    IN IF at = {} THEN 0 ELSE CHOOSE p \in at : \A q \in at : p <= q

(* what follows the match that starts at p *)
AfterFence(text, lang, p) ==
    SubSeq(text, SkipSpaces(text, p + Len(Ticks \o lang)), Len(text))

(* replace of the pattern by the empty text: the first match only *)
RemoveFirstFence(text, lang) ==
    LET p == FenceAt(text, lang)
    IN IF p = 0 THEN text
       ELSE SubSeq(text, 1, p - 1) \o AfterFence(text, lang, p)

(* the same replace with the g flag: every match, leftmost first *)
RECURSIVE RemoveFences(_, _)
RemoveFences(text, lang) ==
    LET p == FenceAt(text, lang)
    IN IF p = 0 THEN text
       ELSE SubSeq(text, 1, p - 1) \o RemoveFences(AfterFence(text, lang, p), lang)

(* CleanResponse with replace acting on the first match only *)
CleanResponseFirstMatch(responseText) ==
    Trim(RemoveFirstFence(RemoveFirstFence(responseText, KwJson), <<>>))

(* lines 94-97 *)
CleanResponse(responseText) ==
    Trim(RemoveFences(RemoveFences(responseText, KwJson), <<>>))

(* JSON.parse on an object of string members, on null and on a number; on *)
(* anything else it throws                                                 *)
RECURSIVE QuoteEnd(_, _)
QuoteEnd(text, j) ==
    IF j > Len(text) THEN 0
    ELSE IF text[j] = "\"" THEN j
    ELSE QuoteEnd(text, j + 1)

Is(text, j, c) == j <= Len(text) /\ text[j] = c

NotJson == [form |-> "garbage", members |-> <<>>]
JsonObject(members) == [form |-> "object", members |-> members]

RECURSIVE ParseMembers(_, _, _)
ParseMembers(text, i, members) ==
    LET k == SkipSpaces(text, i)
        kEnd == QuoteEnd(text, k + 1)
        colon == SkipSpaces(text, kEnd + 1)
        v == SkipSpaces(text, colon + 1)
        vEnd == QuoteEnd(text, v + 1)
        next == SkipSpaces(text, vEnd + 1)
    IN IF ~Is(text, k, "\"") \/ kEnd = 0 \/ ~Is(text, colon, ":")
          \/ ~Is(text, v, "\"") \/ vEnd = 0
       THEN NotJson
       ELSE LET member == [key |-> Str(SubSeq(text, k + 1, kEnd - 1)),
                           value |-> Str(SubSeq(text, v + 1, vEnd - 1))]
            IN IF Is(text, next, ",")
               THEN ParseMembers(text, next + 1, Append(members, member))
               ELSE IF Is(text, next, "}") /\ SkipSpaces(text, next + 1) > Len(text)
               THEN JsonObject(Append(members, member))
               ELSE NotJson

JsonParse(text) ==
    LET body == Trim(text)
    IN IF body = KwNull THEN [form |-> "null", members |-> <<>>]
       ELSE IF body # <<>> /\ \A i \in 1..Len(body) : body[i] \in Digits
       THEN [form |-> "scalar", members |-> <<>>]
       ELSE IF ~Is(body, 1, "{") THEN NotJson
       ELSE IF Is(body, SkipSpaces(body, 2), "}")
       THEN IF SkipSpaces(body, 2) = Len(body) THEN JsonObject(<<>>) ELSE NotJson
       ELSE ParseMembers(body, 2, <<>>)

(* parsed[name]: of members with one key the last one counts; a key the *)
(* object does not have and an empty string are both falsy              *)
Field(members, name) ==
    LET at == {i \in 1..Len(members) : members[i].key = name}
    IN IF at = {} THEN Absent
       ELSE LET last == CHOOSE i \in at : \A j \in at : j <= i
            IN IF members[last].value = "" THEN Absent ELSE members[last].value

(* lines 91-101: what the text of the reply is to the lines that follow *)
ReplyOf(text) ==
    LET parsed == JsonParse(CleanResponse(Trim(text)))
    IN [form |-> parsed.form,
        severity |-> Field(parsed.members, "severity"),
        possibleCause |-> Field(parsed.members, "possibleCause"),
        recommendation |-> Field(parsed.members, "recommendation")]

(* The replies: objects of up to three members, written compactly or with *)
(* spaces, bare or inside a fence                                          *)
KeySeverity == <<"s", "e", "v", "e", "r", "i", "t", "y">>
KeyPossibleCause == <<"p", "o", "s", "s", "i", "b", "l", "e", "C", "a", "u", "s", "e">>
KeyRecommendation == <<"r", "e", "c", "o", "m", "m", "e", "n", "d", "a", "t", "i", "o", "n">>

TxCritical == <<"C", "R", "I", "T", "I", "C", "A", "L">>
TxTicks == <<"^", "^", "^">>
TxOverload == <<"o", "v", "e", "r", "l", "o", "a", "d">>
TxSeeLog == <<"s", "e", "e", " ", "^", "^", "^", " ", "l", "o", "g">>
TxJsonTicks == <<"^", "^", "^", "j", "s", "o", "n", " ", "x">>
TxEmpty == <<>>
TxRest == <<"r", "e", "s", "t">>
TxOops == <<"o", "o", "p", "s">>
TxNumber == <<"4", "2">>

Quoted(text) == <<"\"">> \o text \o <<"\"">>
Member(key, value, gap) == Quoted(key) \o <<":">> \o gap \o Quoted(value)

RECURSIVE JoinMembers(_, _)
JoinMembers(members, gap) ==
    IF members = <<>> THEN <<>>
    ELSE IF Len(members) = 1 THEN Head(members)
    ELSE Head(members) \o <<",">> \o gap \o JoinMembers(Tail(members), gap)

(* JSON.stringify of the object, optional members left out when absent *)
Stringify(severity, cause, recommendation, gap) ==
    LET one(key, value) == IF value = Missing THEN <<>> ELSE <<Member(key, value[1], gap)>>
    IN <<"{">>
       \o JoinMembers(one(KeySeverity, severity) \o one(KeyPossibleCause, cause)
                      \o one(KeyRecommendation, recommendation), gap)
       \o <<"}">>

Gaps == {<<>>, <<" ">>}
ObjectTexts ==
    {Stringify(s, c, r, gap) :
        s \in {Missing, Some(TxCritical), Some(TxTicks)},
        c \in {Missing, Some(TxEmpty), Some(TxOverload), Some(TxSeeLog), Some(TxJsonTicks)},
        r \in {Missing, Some(TxRest)},
        gap \in Gaps}

FenceForms == {<<"\n">>, <<" ">>, <<>>}
Fenced(gap, text) == Ticks \o KwJson \o gap \o text \o gap \o Ticks

OracleTexts ==
    ObjectTexts \cup {Fenced(gap, x) : gap \in FenceForms, x \in ObjectTexts}
    \cup {KwNull, TxNumber, TxOops, Fenced(<<"\n">>, TxOops)}

TextOutcomes ==
    {[ok |-> TRUE, status |-> 200, text |-> x] : x \in OracleTexts}
    \cup {[ok |-> FALSE, status |-> s, text |-> <<>>] : s \in {RateLimitStatus, 500}}

FenceData ==
    {[current |-> Num(120), temperature |-> Num(90), threshold |-> CURRENT_THRESHOLD],
     [current |-> Num(60), temperature |-> Num(25), threshold |-> CURRENT_THRESHOLD]}

(* lines 90-110 on the reply's text *)
OracleTextSettled(t, o) ==
    /\ OracleReceived(t, [ok |-> o.ok, status |-> o.status,
                          reply |-> IF o.ok THEN ReplyOf(o.text) ELSE NoReply])
    /\ replies' = Append(replies, o.text)
    /\ UNCHANGED <<question, classification, rpc, calls, rule, rejection, answer,
                   toolkit, inflight, failures, cont>>

NextText ==
    \/ \E t \in Tasks, d \in FenceData : StartAnalyze(t, d)
    \/ \E t \in Tasks, o \in TextOutcomes : OracleTextSettled(t, o)
    \/ \E t \in Tasks, ok \in BOOLEAN : CreateSettled(t, ok)

InitText == InitPipeline(<<"direct", "off">>) /\ InitClassifier

SpecText == InitText /\ [][NextText]_vars

(* what the call made of the reply it received *)
Parsed(r) ==
    [parsed |-> TRUE, severity |-> r.severity, possibleCause |-> r.possibleCause,
     recommendation |-> r.recommendation]
Unparsed == [parsed |-> FALSE, severity |-> "", possibleCause |-> "", recommendation |-> ""]
Made(t) == IF pending[t] = NoResult THEN Unparsed ELSE Parsed(pending[t])

(* what lines 91-110 make of a text *)
MakesOf(text) ==
    LET reply == ReplyOf(text)
    IN IF JsonParseThrows(reply) \/ FieldReadThrows(reply) THEN Unparsed
       ELSE Parsed(FinalResult(reply, data[1], 0))

Received(t) == pc[t] \in {"create", "returned"} /\ Len(replies) = 1

(* C21: a reply that is a JSON object inside a json fence is parsed to     *)
(* the same severity, possibleCause and recommendation as the same object  *)
(* sent without the fence, for every object text, also those whose string  *)
(* values hold backticks: the call that received the fenced text holds     *)
(* what the bare text gives, and the call that received the bare text what *)
(* every fenced form of it gives.                                          *)
C21_FenceRoundTrip ==
    \A t \in Tasks :
        Received(t) =>
            \A x \in ObjectTexts, gap \in FenceForms :
                /\ replies[1] = Fenced(gap, x) => Made(t) = MakesOf(x)
                /\ replies[1] = x => Made(t) = MakesOf(Fenced(gap, x))

FencedSeeLog ==
    Fenced(<<"\n">>, Stringify(Some(TxCritical), Some(TxSeeLog), Missing, <<>>))

C21_Witness ==
    \E t \in Tasks :
        /\ pc[t] = "returned"
        /\ replies = <<FencedSeeLog>>
        /\ ai[t].severity = "CRITICAL"
        /\ ai[t].possibleCause = "see log"
        /\ ai[t].recommendation = "Manual inspection required"

----------------------------------------------------------------------------
(* Two ingest requests at once: their steps interleave at the awaits *)

ConcurrentBatches == {<<rec>> : rec \in IngestRecords}

NextConcurrent ==
    \/ \E t \in Tasks, b \in ConcurrentBatches : Receive(t, b)
    \/ \E t \in Tasks, ok \in BOOLEAN : BulkCreateSettled(t, ok)
    \/ \E t \in Tasks : LoopStep(t)
    \/ \E t \in Tasks, o \in OracleOutcomes : OracleSettled(t, o)
    \/ \E t \in Tasks, ok \in BOOLEAN : CreateSettled(t, ok)
    \/ \E t \in Tasks, ok \in BOOLEAN : UpdateSettled(t, ok)
    \/ \E t \in Tasks, ok \in BOOLEAN : FindAllSettled(t, ok)
    \/ Tick

InitConcurrent == InitPipeline(<<"ingest", "ingest">>) /\ InitClassifier

SpecConcurrent == InitConcurrent /\ [][NextConcurrent]_vars

(* C22: with the analyze calls of two requests interleaved, once one of    *)
(* them has received a 429, a call of the other request that makes its     *)
(* breaker check afterwards, within the block window, does not dispatch to *)
(* the oracle.                                                             *)
C22_AtomicCheckThenAct ==
    \A t \in Tasks, u \in Tasks :
        (t # u /\ lastError[u] = HttpError(RateLimitStatus) /\ enteredInWindow[t])
            => pc[t] # "generateContent"

----------------------------------------------------------------------------
(* The circuit breaker *)

(* C23: an analyze call entered while the block opened by an earlier 429   *)
(* is in force (before the 429's time plus BlockMs) returns severity       *)
(* UNKNOWN with the cause that the API is blocked and the recommendation   *)
(* to wait, without calling the oracle.                                    *)
C23_BlockedShortCircuits ==
    \A t \in Tasks :
        enteredInWindow[t] =>
            /\ pc[t] \notin {"generateContent", "create"}
            /\ Returned(t) =>
                  /\ ai[t].severity = "UNKNOWN"
                  /\ ai[t].possibleCause = BlockedResult(data[t], now).possibleCause
                  /\ ai[t].recommendation = "Wait until API is available"

(* the catch block of analyze ran in this step on an error that is not a 429 *)
CaughtOther(t) ==
    /\ pc[t] \in {"generateContent", "create"}
    /\ lastError'[t] # lastError[t]
    /\ lastError'[t] # HttpError(RateLimitStatus)

(* C24: a failure that is not a rate-limit signal (an oracle failure with   *)
(* another status, a reply that does not parse, a failed store write)       *)
(* leaves the blocked flag and the block-until time as they were, and the   *)
(* call returns the threshold fallback.                                     *)
C24_OnlyRateLimitOpensBreaker ==
    [][\A t \in Tasks :
          CaughtOther(t) =>
              /\ isApiBlocked'[t] = isApiBlocked[t]
              /\ blockUntil'[t] = blockUntil[t]
              /\ rateLimitedAt' = rateLimitedAt
              /\ ai'[t] = FallbackResult(data[t], now)]_vars

C24_Witness ==
    \E t \in Tasks :
        /\ pc[t] = "returned"
        /\ lastError[t] = SyntaxError
        /\ ~isApiBlocked[t]
        /\ blockUntil[t] = 0
        /\ rateLimitedAt = {}
        /\ ai[t] = FallbackResult(data[t], ai[t].analysisTimestamp)

(* analyze is entered in this step *)
EntersAnalyze(t) ==
    \E i \in (Len(trace[t]) + 1)..Len(trace'[t]) : trace'[t][i][1] = "analyze"

(* a 429 was received and the block window of every 429 is over *)
BlockElapsed == rateLimitedAt # {} /\ \A at \in rateLimitedAt : now >= at + BlockMs

(* C25: an analyze call that starts when the block window of the earlier   *)
(* 429s is over dispatches to the oracle again, and the block-until time   *)
(* of a call is moved forward only by that call receiving a 429.           *)
C25_BreakerResets ==
    [][\A t \in Tasks :
          /\ (EntersAnalyze(t) /\ BlockElapsed) =>
                 /\ pc'[t] = "generateContent"
                 /\ oracleCalls' = oracleCalls + 1
          /\ blockUntil'[t] > blockUntil[t] =>
                 /\ lastError'[t] = HttpError(RateLimitStatus)
                 /\ blockUntil'[t] = now + BlockMs
                 /\ now \in rateLimitedAt']_vars

C25_Witness ==
    \E t \in Tasks :
        /\ pc[t] = "generateContent"
        /\ idx[t] = 2
        /\ BlockElapsed
        /\ ~enteredInWindow[t]
        /\ oracleCalls = 2

(* the non-empty values the members of this name carry, the last one of a *)
(* repeated key only                                                      *)
Carried(members, name) ==
    {members[i].value : i \in {j \in 1..Len(members) :
        /\ members[j].key = name
        /\ members[j].value # ""
        /\ \A l \in (j + 1)..Len(members) : members[l].key # name}}

DefaultsTo(value, given, default) ==
    IF given = {} THEN value = default ELSE value \in given

EmptyCauseText == Stringify(Missing, Some(TxEmpty), Some(TxRest), <<>>)

----------------------------------------------------------------------------
(* Rows and results *)

(* C27: an ingest call whose bulk-persist succeeded has added exactly one  *)
(* row per record of its batch to the store, at every later point of the  *)
(* call: analysing a record and attaching its result insert no row.        *)
C27_BatchAddsExactlyItsRows ==
    \A t \in Tasks :
        (kind[t] = "ingest" /\ Persisted(t)) => Len(store) = Len(batch[t])

FallbackCause == FallbackResult(data[1], 0).possibleCause

(* C28: a call that received a well-formed JSON object from the oracle     *)
(* returns the result built from it, and the threshold fallback is         *)
(* returned only after a failed oracle call or a reply that could not be   *)
(* parsed, never on account of a store write.                              *)
C28_FallbackOnlyOnOracleFailure ==
    \A t \in Tasks :
        Returned(t) =>
            /\ pending[t] # NoResult => ai[t] = pending[t]
            /\ ai[t].possibleCause = FallbackCause =>
                  lastError[t].at \in {"generateContent", "JSON.parse", "parsedResult.severity"}

----------------------------------------------------------------------------
(* Routing of the hybrid agent *)

(* getConversationalResponse has chosen a handler for the classified question *)
Routed ==
    /\ classification # Unclassified
    /\ rpc \notin {"idle", "classifyQuery", "classifier.invoke", "classified"}

(* the calls made after the classification *)
HandlerCalls ==
    LET ByHandler(c) == c.by # "classifyQuery"
    IN SelectSeq(calls, ByHandler)

QuickAnswers ==
    {<<[content |-> <<QuickToolMissing>>]>>, <<[content |-> <<QuickQueryHelp>>]>>}

(* handleSimpleQuery ran: the first thing done is a call of the quick tool, *)
(* or the answer is one of its messages                                     *)
HandledBySimple ==
    IF HandlerCalls # <<>> THEN HandlerCalls[1].by = "smartweld_quick_query"
    ELSE rpc = "done" /\ answer \in QuickAnswers

(* handleComplexQuery ran: the first thing done is an oracle call of its  *)
(* own or a call of the SQL or database-info tool, or the answer is one   *)
(* of its texts                                                           *)
HandledByComplex ==
    IF HandlerCalls # <<>>
    THEN HandlerCalls[1].by \in
             {"handleComplexQuery", "smartweld_sql_query", "smartweld_database_info"}
    ELSE rpc = "done" /\ answer \notin QuickAnswers

(* C29: a question classified simple is handled by the quick-aggregate path *)
(* and a question classified complex by the complex strategy, whatever the  *)
(* oracle replied to the classifier, the reply "simple:" with no action     *)
(* name included.                                                           *)
C29_RoutingAgrees ==
    Routed =>
        /\ classification.type = "simple" => HandledBySimple
        /\ classification.type = "complex" => HandledByComplex

----------------------------------------------------------------------------
(* GetTableSchemaTool (part_002) called on its own *)

TnUsers == <<"u", "s", "e", "r", "s">>
TnDevice == <<"D", "e", "v", "i", "c", "e">>
TableNames == {TnUsers, TnDevice}

(* the inputs: a table name, bare or quoted, alone or inside a phrase *)
PhraseStarts ==
    {<<>>, <<"t", "a", "b", "l", "e", " ">>, <<"s", "c", "h", "e", "m", "a", " ", "o", "f", " ">>, <<"s", "c", "h", "e", "m", "a", " ", "o", "f", " ", "t", "h", "e", " ">>, <<"s", "t", "r", "u", "c", "t", "u", "r", "e", " ", "o", "f", " ">>,
     <<"S", "h", "o", "w", " ", "m", "e", " ", "t", "h", "e", " ", "s", "c", "h", "e", "m", "a", " ", "o", "f", " ", "t", "h", "e", " ">>}
PhraseEnds == {<<>>, <<" ", "t", "a", "b", "l", "e">>}
NameQuotes == {<<>>, <<"'">>}
SchemaToolInputs ==
    {start \o quote \o name \o quote \o end :
        start \in PhraseStarts, quote \in NameQuotes, name \in TableNames, end \in PhraseEnds}

(* _call, lines 12-34, up to its await or return *)
GetTableSchemaToolCall(input) ==
    LET tableMatch == TableMatch(input)
    IN IF tableMatch = Missing
       THEN Return(<<ClarificationMessage>>)
       ELSE AwaitStore("describeTable", "get-table-schema", tableMatch[1],
                       Cont(<<"Schema for table ">>, <<"Schema for table ">>,
                            <<"Error getting schema: ">>, <<>>))

SchemaToolCall(input) ==
    /\ rpc = "idle"
    /\ question = <<>>
    /\ calls = <<>>
    /\ question' = input
    /\ GetTableSchemaToolCall(input)
    /\ UNCHANGED <<classification, rule, replies, rejection, toolkit, failures>>
    /\ UNCHANGED pipelineVars

NextSchemaTool ==
    \/ \E input \in SchemaToolInputs : SchemaToolCall(input)
    \/ \E o \in StoreOutcomes : StoreSettled(o)

InitSchemaTool == InitPipeline(<<"off", "off">>) /\ InitClassifier

SpecSchemaTool == InitSchemaTool /\ [][NextSchemaTool]_vars

(* the table the input names *)
NamedTable(input) == CHOOSE name \in TableNames : Includes(input, name)

(* C30: called with a table name as its input, or with a phrase that names *)
(* a table, GetTableSchemaTool asks the store to describe that table.      *)
C30_DescribesNamedTable ==
    rpc # "idle" =>
        /\ Len(calls) = 1
        /\ calls[1].op = "describeTable"
        /\ calls[1].arg = NamedTable(question)

====
